---------------------------- MODULE Spec2Model ----------------------------
(***************************************************************************)
(* A model of the download engine of XTERNAL (src/XTERNAL/main.py):        *)
(* professional_download, simple_download_advanced,                        *)
(* threaded_download_advanced with its download_chunk workers, the         *)
(* per-chunk rate limiter and validate_url.                                *)
(*                                                                         *)
(* File contents are kept as sequences of extents [src, lo, hi]: the bytes *)
(* lo..hi of the remote resource (src = "res") or of what was on disk      *)
(* before the session (src = "old").  Two files are byte-identical for     *)
(* every resource exactly when their extent sequences are equal, since     *)
(* writes keep the sequences merged (Write).                               *)
(***************************************************************************)
EXTENDS Integers, Sequences, FiniteSets, TLC

(***************************************************************************)
(* Bounds of the model.                                                    *)
(***************************************************************************)
MaxThreads == 2
MaxPlanSize == 40
MaxRateChunks == 5
MaxDelay == 2
MaxChunkTicks == 2
MaxRate == 2
ChunkMult == 6
MaxTaken == 1
MaxCfgSteps == 2
MaxUrls == 3
MaxSampThreads == 2
MaxSampChunks == 2

(***************************************************************************)
(* Program constants.                                                      *)
(***************************************************************************)
DEFAULT_chunk_size == 1048576
THREAD_CAP == 16
DEFAULT_max_threads == 16
PLAN_MAX_WORKERS == 32
SMALL_FILE_LIMIT == 10 * 1024 * 1024
DEFAULT_min_disk_space_mb == 100
MiB == 1024 * 1024

Min(a, b) == IF a < b THEN a ELSE b

Max(a, b) == IF a > b THEN a ELSE b

(***************************************************************************)
(* Files.                                                                  *)
(***************************************************************************)
Ext(src, lo, hi) == [src |-> src, lo |-> lo, hi |-> hi]

NoFile == [exists |-> FALSE, data |-> <<>>]

File(d) == [exists |-> TRUE, data |-> d]

RECURSIVE FLen(_)
FLen(d) == IF d = <<>> THEN 0 ELSE (Head(d).hi - Head(d).lo + 1) + FLen(Tail(d))

\* f.write(chunk): the bytes go to the end of the file.
Write(d, e) ==
    IF e.hi < e.lo THEN d
    ELSE IF d # <<>> /\ d[Len(d)].src = e.src /\ d[Len(d)].hi + 1 = e.lo
         THEN [d EXCEPT ![Len(d)].hi = e.hi]
         ELSE Append(d, e)

\* shutil.copyfileobj(infile, outfile)
RECURSIVE copyfileobj(_, _)
copyfileobj(infile, outfile) ==
    IF infile = <<>> THEN outfile
    ELSE copyfileobj(Tail(infile), Write(outfile, Head(infile)))

(***************************************************************************)
(* The planner of threaded_download_advanced.                              *)
(***************************************************************************)
SegmentNoRemainder(file_size, n, i) ==
    LET chunk_size == file_size \div n
        start == i * chunk_size
    IN  <<start, start + chunk_size - 1, i>>

Segment(file_size, n, i) ==
    LET chunk_size == file_size \div n
        start == i * chunk_size
        end == IF i < n - 1 THEN start + chunk_size - 1 ELSE file_size - 1
    IN  <<start, end, i>>

Plan(file_size, n) == [k \in 1..n |-> Segment(file_size, n, k - 1)]

(***************************************************************************)
(* validate_url.  A string is a sequence of characters; urlparse is        *)
(* modelled on the characters of the URL.                                  *)
(***************************************************************************)
lower_char(c) ==
    CASE
         c = "A" -> "a"
      [] c = "B" -> "b"
      [] c = "C" -> "c"
      [] c = "D" -> "d"
      [] c = "E" -> "e"
      [] c = "F" -> "f"
      [] c = "G" -> "g"
      [] c = "H" -> "h"
      [] c = "I" -> "i"
      [] c = "J" -> "j"
      [] c = "K" -> "k"
      [] c = "L" -> "l"
      [] c = "M" -> "m"
      [] c = "N" -> "n"
      [] c = "O" -> "o"
      [] c = "P" -> "p"
      [] c = "Q" -> "q"
      [] c = "R" -> "r"
      [] c = "S" -> "s"
      [] c = "T" -> "t"
      [] c = "U" -> "u"
      [] c = "V" -> "v"
      [] c = "W" -> "w"
      [] c = "X" -> "x"
      [] c = "Y" -> "y"
      [] c = "Z" -> "z"
      [] OTHER -> c

\* str.lower()
lower(str) == [k \in 1..Len(str) |-> lower_char(str[k])]

\* str.startswith(prefix)
startswith(str, prefix) ==
    Len(prefix) <= Len(str) /\ SubSeq(str, 1, Len(prefix)) = prefix

\* str.endswith(suffix)
endswith(str, suffix) ==
    Len(suffix) <= Len(str) /\ SubSeq(str, Len(str) - Len(suffix) + 1, Len(str)) = suffix

\* The least index of a character of chars in str from index from on, or
\* Len(str) + 1.
RECURSIVE find_any(_, _, _)
find_any(str, chars, from) ==
    IF from > Len(str) THEN Len(str) + 1
    ELSE IF str[from] \in chars THEN from
         ELSE find_any(str, chars, from + 1)

Letters ==
    {"a", "b", "c", "d", "e", "f", "g", "h", "i", "j", "k", "l", "m", "n", "o", "p", "q",
     "r", "s", "t", "u", "v", "w", "x", "y", "z", "A", "B", "C", "D", "E", "F", "G", "H",
     "I", "J", "K", "L", "M", "N", "O", "P", "Q", "R", "S", "T", "U", "V", "W", "X", "Y",
     "Z"}

scheme_chars == Letters \cup {"0", "1", "2", "3", "4", "5", "6", "7", "8", "9", "+", "-", "."}

\* The greatest index of character c in str up to index from, or 0.
RECURSIVE rfind(_, _, _)
rfind(str, c, from) ==
    IF from = 0 THEN 0
    ELSE IF str[from] = c THEN from ELSE rfind(str, c, from - 1)

\* urllib.parse.uses_params
uses_params ==
    {<<>>,
     <<"f", "t", "p">>,
     <<"h", "d", "l">>,
     <<"p", "r", "o", "s", "p", "e", "r", "o">>,
     <<"h", "t", "t", "p">>,
     <<"i", "m", "a", "p">>,
     <<"h", "t", "t", "p", "s">>,
     <<"s", "h", "t", "t", "p">>,
     <<"r", "t", "s", "p">>,
     <<"r", "t", "s", "p", "u">>,
     <<"s", "i", "p">>,
     <<"s", "i", "p", "s">>,
     <<"m", "m", "s">>,
     <<"s", "f", "t", "p">>,
     <<"t", "e", "l">>}

\* urllib.parse.urlparse(url): scheme (lowered), netloc and path; for the
\* schemes of uses_params the parameters (';' and what follows in the last
\* path segment) are split off the path.
urlparse(url) ==
    LET colon == find_any(url, {":"}, 1)
        has_scheme == /\ colon <= Len(url)
                      /\ colon > 1
                      /\ url[1] \in Letters
                      /\ \A k \in 1..(colon - 1) : url[k] \in scheme_chars
        scheme == IF has_scheme THEN lower(SubSeq(url, 1, colon - 1)) ELSE <<>>
        rest == IF has_scheme THEN SubSeq(url, colon + 1, Len(url)) ELSE url
        has_netloc == startswith(rest, <<"/", "/">>)
        delim == find_any(rest, {"/", "?", "#"}, 3)
        netloc == IF has_netloc THEN SubSeq(rest, 3, delim - 1) ELSE <<>>
        tail == IF has_netloc THEN SubSeq(rest, delim, Len(rest)) ELSE rest
        full == SubSeq(tail, 1, find_any(tail, {"?", "#"}, 1) - 1)
        semi == find_any(full, {";"}, Max(rfind(full, "/", Len(full)), 1))
        path == IF scheme \in uses_params THEN SubSeq(full, 1, semi - 1) ELSE full
    IN  [scheme |-> scheme, netloc |-> netloc, path |-> path]

\* ParseResult.hostname: the netloc without user information and port,
\* lowered; the empty string stands for None.
hostname(netloc) ==
    LET at == rfind(netloc, "@", Len(netloc))
        hostport == SubSeq(netloc, at + 1, Len(netloc))
        colon == find_any(hostport, {":"}, 1)
    IN  lower(SubSeq(hostport, 1, colon - 1))

in_list(x, list) == \E k \in 1..Len(list) : list[k] = x

suspicious_domains == <<<<"l", "o", "c", "a", "l", "h", "o", "s", "t">>, <<"1", "2", "7", ".", "0", ".", "0", ".", "1">>, <<"0", ".", "0", ".", "0", ".", "0">>>>

\* if not parsed.netloc
missing_host(parsed) == parsed.netloc = <<>>

validate_url(url, config) ==
    LET parsed == urlparse(url)
        path == lower(parsed.path)
    IN  IF ~in_list(parsed.scheme, config.allowed_protocols)
        THEN <<"False", "Protocol not allowed">>
        ELSE IF missing_host(parsed)
        THEN <<"False", "Invalid hostname">>
        ELSE IF /\ in_list(lower(parsed.netloc), suspicious_domains)
                /\ ~startswith(url, <<"h", "t", "t", "p", ":", "/", "/", "l", "o", "c", "a", "l", "h", "o", "s", "t">>)
        THEN <<"False", "Suspicious domain detected">>
        ELSE IF \E k \in 1..Len(config.blocked_extensions) :
                   endswith(path, config.blocked_extensions[k])
        THEN <<"False", "Blocked file type">>
        ELSE <<"True", "Valid URL">>

DEFAULT_allowed_protocols == <<<<"h", "t", "t", "p">>, <<"h", "t", "t", "p", "s">>, <<"f", "t", "p">>, <<"f", "t", "p", "s">>, <<"s", "f", "t", "p">>>>

DEFAULT_blocked_extensions == <<<<".", "e", "x", "e">>, <<".", "s", "c", "r">>, <<".", "b", "a", "t">>, <<".", "c", "m", "d">>>>

UrlBlockedExtension(url, config) ==
    \E k \in 1..Len(config.blocked_extensions) :
        endswith(lower(urlparse(url).path), lower(config.blocked_extensions[k]))

UrlBlockedHost(url) == in_list(hostname(urlparse(url).netloc), suspicious_domains)

(***************************************************************************)
(* extract_filename, on the characters of the URL and of the header.       *)
(***************************************************************************)
\* str.find(sub, from): the least index from which sub occurs in str, or 0.
RECURSIVE find(_, _, _)
find(str, sub, from) ==
    IF from + Len(sub) - 1 > Len(str) THEN 0
    ELSE IF SubSeq(str, from, from + Len(sub) - 1) = sub THEN from
         ELSE find(str, sub, from + 1)

\* sub in str
contains(str, sub) == find(str, sub, 1) # 0

\* str.split(sep)[1], for a str that contains sep: what lies between the
\* first occurrence of sep and the next one (or the end).
split_1(str, sep) ==
    LET start == find(str, sep, 1) + Len(sep)
        next == find(str, sep, start)
    IN  SubSeq(str, start, IF next = 0 THEN Len(str) ELSE next - 1)

\* str.strip(c)
RECURSIVE lstrip(_, _)
lstrip(str, c) == IF str # <<>> /\ Head(str) = c THEN lstrip(Tail(str), c) ELSE str

RECURSIVE rstrip(_, _)
rstrip(str, c) ==
    IF str # <<>> /\ str[Len(str)] = c THEN rstrip(SubSeq(str, 1, Len(str) - 1), c) ELSE str

strip(str, c) == rstrip(lstrip(str, c), c)

hex_digits ==
    <<"0", "1", "2", "3", "4", "5", "6", "7", "8", "9", "a", "b", "c", "d", "e", "f">>

is_hex(c) == in_list(lower_char(c), hex_digits)

hex_value(c) == (CHOOSE k \in 1..16 : hex_digits[k] = lower_char(c)) - 1

\* The printable ASCII characters, from code 32 on (the grave accent, code
\* 96, which a string of this language cannot hold, is written "?").
printable ==
    <<" ", "!", "\"", "#", "$", "%", "&", "'", "(", ")", "*", "+", ",", "-",
      ".", "/", "0", "1", "2", "3", "4", "5", "6", "7", "8", "9", ":", ";",
      "<", "=", ">", "?", "@", "A", "B", "C", "D", "E", "F", "G", "H", "I",
      "J", "K", "L", "M", "N", "O", "P", "Q", "R", "S", "T", "U", "V", "W",
      "X", "Y", "Z", "[", "\\", "]", "^", "_", "?", "a", "b", "c", "d", "e",
      "f", "g", "h", "i", "j", "k", "l", "m", "n", "o", "p", "q", "r", "s",
      "t", "u", "v", "w", "x", "y", "z", "{", "|", "}", "~">>

\* The character of a decoded octet; octets outside printable ASCII (control
\* characters, bytes of a multi-byte sequence) are all written "?".
chr(n) == IF n \in 32..126 THEN printable[n - 31] ELSE "?"

\* urllib.parse.unquote(str): each %xx with two hexadecimal digits is
\* replaced by the character of that octet, everything else is kept.
RECURSIVE unquote(_)
unquote(str) ==
    IF str = <<>> THEN <<>>
    ELSE IF /\ Head(str) = "%"
            /\ Len(str) >= 3
            /\ is_hex(str[2]) /\ is_hex(str[3])
         THEN <<chr(16 * hex_value(str[2]) + hex_value(str[3]))>>
                  \o unquote(SubSeq(str, 4, Len(str)))
         ELSE <<Head(str)>> \o unquote(Tail(str))

\* os.path.basename(path)
basename(path) == SubSeq(path, rfind(path, "/", Len(path)) + 1, Len(path))

\* A content-disposition header as the server composed it: the disposition
\* type and its parameters, each a name and a value that is sent as a token
\* or as a quoted string.  header_value is the text on the wire.
RECURSIVE header_params(_)
header_params(params) ==
    IF params = <<>> THEN <<>>
    ELSE LET q == Head(params)
         IN  <<";", " ">> \o q.name \o <<"=">>
                 \o (IF q.quoted THEN <<"\"">> \o q.value \o <<"\"">> ELSE q.value)
                 \o header_params(Tail(params))

header_value(disposition) == disposition.type \o header_params(disposition.params)

\* extract_filename(url, headers); now is datetime.now().strftime("%Y%m%d_%H%M%S")
hint_marker == <<"f", "i", "l", "e", "n", "a", "m", "e", "=">>

extract_filename(url, headers, now) ==
    LET disposition == header_value(headers.content_disposition)
        filename == basename(urlparse(url).path)
    IN  IF headers.has_content_disposition /\ contains(disposition, hint_marker)
        THEN unquote(strip(strip(split_1(disposition, hint_marker), "\""), "'"))
        ELSE IF filename # <<>>
             THEN unquote(filename)
             ELSE <<"d", "o", "w", "n", "l", "o", "a", "d", "_">> \o now

VARIABLES p_size, p_n, p_tasks, p_done,
          CONFIG, file_info, server, files, filepath, mpc, success, ret, route,
          num_threads, download_tasks, progress_data,
          wpc, wbody, wchunk, wres, total_downloaded, temp_files, loop_i,
          resume_pos, mode, sbody, downloaded, requests, STATS,
          dest0, dest_opened, written,
          url, is_valid, error, head_requests, head_status, free, files0, download_dir,
          cfg_max_threads, cfg_steps, cfg_plan,
          r_rate, r_now, r_start, r_last_time, r_bytes, r_chunks, r_burst,
          r_deficit, r_slept,
          n_url, n_headers, n_now, n_filename,
          entry, urls, batch_i, successful, failed, calls, outcomes, batch_pc, exit_code,
          sp_downloaded, sp_written, sp_wpc, sp_chunk, sp_left, progress_lock, sp_pc, sp_k, sp_acc, sp_total,
          v_url, v_config, v_result

planVars == <<p_size, p_n, p_tasks, p_done>>

rateVars ==
    <<r_rate, r_now, r_start, r_last_time, r_bytes, r_chunks, r_burst, r_deficit, r_slept>>

urlVars == <<v_url, v_config, v_result>>

cfgVars == <<cfg_max_threads, cfg_steps, cfg_plan>>

nameVars == <<n_url, n_headers, n_now, n_filename>>

batchVars == <<entry, urls, batch_i, successful, failed, calls, outcomes, batch_pc, exit_code>>

sampVars == <<sp_downloaded, sp_written, sp_wpc, sp_chunk, sp_left, progress_lock, sp_pc, sp_k, sp_acc, sp_total>>

otherVars == <<planVars, rateVars, urlVars, cfgVars, nameVars, batchVars, sampVars>>

frontVars == <<url, is_valid, error, head_requests, head_status>>

envVars == <<CONFIG, file_info, server, filepath, dest0, free, files0, download_dir>>

mainVars == <<mpc, success, ret, route, STATS>>

poolVars == <<num_threads, download_tasks, temp_files, loop_i, total_downloaded>>

workerVars == <<progress_data, wpc, wbody, wchunk, wres, written>>

simpleVars == <<resume_pos, mode, sbody, downloaded>>

ioVars == <<files, requests, dest_opened>>

sessVars == <<frontVars, envVars, mainVars, poolVars, workerVars, simpleVars, ioVars>>

vars == <<planVars, rateVars, urlVars, cfgVars, nameVars, batchVars, sampVars, sessVars>>

(***************************************************************************)
(* The session: the environment a transfer runs in.                        *)
(***************************************************************************)
MaxWorkers == Min(MaxThreads, THREAD_CAP)

Tids == 0..(MaxWorkers - 1)

Dest == <<"dest", 0>>

Part(t) == <<"part", t>>

\* f"{base}_{counter}{ext}": the name tried with counter k (k = 0: the name itself)
Renamed(k) == <<"dest", k>>

Paths == {Renamed(k) : k \in 0..(MaxTaken + 1)} \cup {Part(t) : t \in Tids}

\* A Range header: NoRange is its absence, hi = -1 the open range 'bytes=lo-'.
NoRange == [lo |-> -1, hi |-> -1]

Range(lo, hi) == [lo |-> lo, hi |-> hi]

EmptyBody == [lo |-> 0, hi |-> -1]

ResourceSizes ==
    {0, 3, SMALL_FILE_LIMIT, SMALL_FILE_LIMIT + 1}

\* What may be at the destination name before the call: nothing, or a file
\* that is empty, one byte long or, for the sizes the single-stream path
\* handles whatever the probe says, of the resource's length or one byte more.
OldFiles(size) ==
    {NoFile} \cup {File(IF l = 0 THEN <<>> ELSE <<Ext("old", 0, l - 1)>>) :
                      l \in {0, 1} \cup (IF size <= SMALL_FILE_LIMIT
                                          THEN {size, size + 1} ELSE {})}

\* What the server answers to a GET: "error" stands for a refused connection,
\* a timeout or a status raise_for_status() rejects; otherwise the body it
\* will stream.  A server that honours Range answers 206 with the bytes asked
\* for (416 past the end); one that does not answers 200 with the resource.
\* A short server closes the stream one byte early.
Answer(srv, r) ==
    LET last == srv.size - 1 - (IF srv.short /\ srv.size > 0 THEN 1 ELSE 0)
    IN  IF r = NoRange \/ ~srv.ranges
        THEN [status |-> 200, body |-> [lo |-> 0, hi |-> last]]
        ELSE IF r.lo >= srv.size
             THEN [status |-> 416, body |-> EmptyBody]
             ELSE [status |-> 206,
                   body |-> [lo |-> r.lo,
                             hi |-> IF r.hi = -1 THEN last ELSE Min(r.hi, last)]]

\* response.raise_for_status()
raise_for_status(status) == status >= 400

\* The next chunk of response.iter_content(chunk_size=CONFIG['chunk_size']).
NextChunk(body, chunk_size) ==
    Ext("res", body.lo, Min(body.hi, body.lo + chunk_size - 1))

Rest(body, chunk_size) == [body EXCEPT !.lo = Min(body.hi, body.lo + chunk_size - 1) + 1]

ChunkLen(e) == e.hi - e.lo + 1

IdlePlan == p_size = 1 /\ p_n = 1 /\ p_tasks = <<>> /\ p_done = FALSE

IdleRate ==
    /\ r_rate = 1 /\ r_now = 0 /\ r_start = 0 /\ r_last_time = 0
    /\ r_bytes = 0 /\ r_chunks = 0 /\ r_burst = 0
    /\ r_deficit = 0 /\ r_slept = 0

IdleUrl ==
    /\ v_url = <<>>
    /\ v_config = [allowed_protocols |-> <<>>, blocked_extensions |-> <<>>]
    /\ v_result = <<"unset", "">>

NoPlan == [state |-> "unset", num_threads |-> 0, segments |-> 0, max_workers |-> 0]

IdleCfg == cfg_max_threads = 1 /\ cfg_steps = 0 /\ cfg_plan = NoPlan

NoHeader == [type |-> <<>>, params |-> <<>>]

IdleName ==
    /\ n_url = <<>>
    /\ n_headers = [has_content_disposition |-> FALSE, content_disposition |-> NoHeader]
    /\ n_now = <<>>
    /\ n_filename = <<"unset">>

IdleBatch ==
    /\ entry = "none" /\ urls = <<>> /\ batch_i = 0 /\ successful = 0 /\ failed = 0
    /\ calls = <<>> /\ outcomes = <<>> /\ batch_pc = "idle" /\ exit_code = "unset"

IdleSampler ==
    /\ sp_downloaded = <<>> /\ sp_written = <<>> /\ sp_wpc = <<>> /\ sp_chunk = <<>>
    /\ sp_left = <<>> /\ progress_lock = -1 /\ sp_pc = "idle" /\ sp_k = 0 /\ sp_acc = 0
    /\ sp_total = 0

IdleSession ==
    /\ CONFIG = [max_threads |-> 1, chunk_size |-> DEFAULT_chunk_size,
                 resume_downloads |-> TRUE, auto_rename |-> TRUE]
    /\ file_info = [file_size |-> 0, supports_resume |-> FALSE]
    /\ server = [size |-> 0, ranges |-> FALSE, short |-> FALSE]
    /\ files = [q \in Paths |-> NoFile]
    /\ filepath = Dest
    /\ dest0 = NoFile
    /\ mpc = "idle"
    /\ success = "unset"
    /\ ret = "unset"
    /\ route = "none"
    /\ STATS = [total_downloads |-> 0, total_bytes |-> 0, failed_downloads |-> 0]
    /\ num_threads = 0
    /\ download_tasks = <<>>
    /\ temp_files = <<>>
    /\ loop_i = 0
    /\ total_downloaded = 0
    /\ progress_data = <<>>
    /\ wpc = <<>>
    /\ wbody = <<>>
    /\ wchunk = <<>>
    /\ wres = <<>>
    /\ written = <<>>
    /\ resume_pos = 0
    /\ mode = "none"
    /\ sbody = EmptyBody
    /\ downloaded = 0
    /\ requests = {}
    /\ dest_opened = FALSE
    /\ url = <<>>
    /\ is_valid = "unset"
    /\ error = "unset"
    /\ head_requests = 0
    /\ head_status = 0
    /\ free = 0
    /\ files0 = [q \in Paths |-> NoFile]
    /\ download_dir = TRUE

\* The URLs handed to professional_download.
SessionUrls ==
    {<<"h", "t", "t", "p", "s", ":", "/", "/", "e", "x", "a", "m", "p", "l", "e", ".", "c", "o", "m", "/", "f", "i", "l", "e", ".", "z", "i", "p">>,
     <<"h", "t", "t", "p", "s", ":", "/", "/", "e", "x", "a", "m", "p", "l", "e", ".", "c", "o", "m", "/", "f", "i", "l", "e", ".", "e", "x", "e">>,
     <<"h", "t", "t", "p", "s", ":", "/", "/", "l", "o", "c", "a", "l", "h", "o", "s", "t", "/", "f", "i", "l", "e", ".", "z", "i", "p">>,
     <<"f", "i", "l", "e", ":", "/", "/", "e", "x", "a", "m", "p", "l", "e", ".", "c", "o", "m", "/", "f", "i", "l", "e", ".", "z", "i", "p">>}

\* file_info before the probe has run
NoInfo == [file_size |-> 0, supports_resume |-> FALSE]

\* What shutil.disk_usage may report as free, in bytes.
FreeBytes == {0, 1024 * MiB}

OneByte == File(<<Ext("old", 0, 0)>>)

\* The download directory before the call: the destination name may be taken
\* and, with it, the first alternative names base_1.ext .. base_k.ext.
InitialDisks(size) ==
    {[q \in Paths |->
         IF q = Dest THEN d
         ELSE IF q \in {Renamed(k) : k \in 1..taken} THEN OneByte ELSE NoFile] :
       d \in OldFiles(size), taken \in 0..MaxTaken}

\* A sink name of the destination is taken too: a file <dest>.part0 that an
\* earlier, interrupted transfer or another program left in the directory.
StaleSink(fs) == [fs EXCEPT ![Part(0)] = OneByte]

\* The state in which professional_download is called.
Init ==
    /\ IdlePlan
    /\ IdleRate
    /\ IdleUrl
    /\ IdleCfg
    /\ IdleName
    /\ IdleBatch
    /\ IdleSampler
    /\ url \in SessionUrls
    /\ is_valid = "unset"
    /\ error = "unset"
    /\ head_requests = 0
    /\ head_status = 0
    /\ CONFIG \in [max_threads : 1..MaxThreads,
                   chunk_size : {ChunkMult * DEFAULT_chunk_size},
                   resume_downloads : BOOLEAN,
                   auto_rename : BOOLEAN,
                   check_disk_space : BOOLEAN,
                   min_disk_space_mb : {DEFAULT_min_disk_space_mb},
                   allowed_protocols : {DEFAULT_allowed_protocols},
                   blocked_extensions : {DEFAULT_blocked_extensions}]
    /\ ~CONFIG.check_disk_space => CONFIG.max_threads = 1
    /\ free \in FreeBytes
    /\ ~CONFIG.check_disk_space => free = 0
    /\ download_dir \in BOOLEAN
    /\ ~download_dir => (CONFIG.check_disk_space /\ free = 0)
    /\ server \in [size : ResourceSizes, ranges : BOOLEAN, short : BOOLEAN]
    /\ server.short => server.ranges
    /\ file_info = NoInfo
    /\ filepath = Dest
    /\ files0 \in InitialDisks(server.size) \cup {StaleSink(fs) : fs \in InitialDisks(server.size)}
    /\ ~download_dir => files0 = [q \in Paths |-> NoFile]
    /\ files0[Part(0)].exists =>
          (CONFIG.auto_rename /\ ~CONFIG.resume_downloads /\ free > 0 /\ files0[Dest] = NoFile)
    /\ CONFIG.auto_rename => files0[Dest] \in {NoFile, OneByte}
    /\ files0[Renamed(1)].exists => (CONFIG.auto_rename /\ files0[Dest].exists)
    /\ dest0 = files0[Dest]
    /\ files = files0
    /\ mpc = "validate"
    /\ success = "unset"
    /\ ret = "unset"
    /\ route = "none"
    /\ STATS = [total_downloads |-> 0, total_bytes |-> 0, failed_downloads |-> 0]
    /\ num_threads = 0
    /\ download_tasks = <<>>
    /\ temp_files = <<>>
    /\ loop_i = 0
    /\ total_downloaded = 0
    /\ progress_data = <<>>
    /\ wpc = <<>>
    /\ wbody = <<>>
    /\ wchunk = <<>>
    /\ wres = <<>>
    /\ written = <<>>
    /\ resume_pos = 0
    /\ mode = "none"
    /\ sbody = EmptyBody
    /\ downloaded = 0
    /\ requests = {}
    /\ dest_opened = FALSE

(***************************************************************************)
(* download_chunk: the worker of one segment.  Worker t is thread_id t; the *)
(* per-thread sequences are indexed t + 1.                                 *)
(***************************************************************************)
Workers == 0..(num_threads - 1)

None == <<"None", 0>>

\* progress_data['downloaded'][thread_id] += len(chunk)
AddProgressOverwrite(d, t, n) == [d EXCEPT ![t + 1] = n]

AddProgress(d, t, n) == [d EXCEPT ![t + 1] = @ + n]

\* return None from the except clause
dc_fail_cancels_all(t) ==
    /\ wpc' = [k \in 1..num_threads |-> "done"]
    /\ wres' = [wres EXCEPT ![t + 1] = None]

dc_fail_retries(t) ==
    /\ wpc' = [wpc EXCEPT ![t + 1] = "request"]
    /\ UNCHANGED wres

dc_fail(t) ==
    /\ wpc' = [wpc EXCEPT ![t + 1] = "done"]
    /\ wres' = [wres EXCEPT ![t + 1] = None]

\* session.get(url, headers={'Range': 'bytes=start-end'}, stream=True);
\* response.raise_for_status()
dc_request(t) ==
    /\ wpc[t + 1] = "request"
    /\ LET task == download_tasks[t + 1]
           r == Range(task[1], task[2])
           a == Answer(server, r)
       IN  /\ requests' = requests \cup {[by |-> t, range |-> r]}
           /\ \/ /\ ~raise_for_status(a.status)
                 /\ wbody' = [wbody EXCEPT ![t + 1] = a.body]
                 /\ wpc' = [wpc EXCEPT ![t + 1] = "open"]
                 /\ UNCHANGED wres
              \/ /\ dc_fail(t)
                 /\ UNCHANGED wbody
    /\ UNCHANGED <<otherVars, frontVars, envVars, mainVars, poolVars, simpleVars, files, dest_opened,
                   progress_data, wchunk, written>>

\* with open(temp_file, 'wb') as f   (an OSError goes to the except clause)
dc_open(t) ==
    /\ wpc[t + 1] = "open"
    /\ \/ /\ files' = [files EXCEPT ![Part(t)] = File(<<>>)]
          /\ wpc' = [wpc EXCEPT ![t + 1] = "iter"]
          /\ UNCHANGED wres
       \/ /\ dc_fail(t)
          /\ UNCHANGED files
    /\ UNCHANGED <<otherVars, frontVars, envVars, mainVars, poolVars, simpleVars, requests, dest_opened,
                   progress_data, wbody, wchunk, written>>

\* for chunk in response.iter_content(...): f.write(chunk); at the end of the
\* stream return temp_file; a network error while reading raises.
dc_iter(t) ==
    /\ wpc[t + 1] = "iter"
    /\ \/ /\ wbody[t + 1].lo <= wbody[t + 1].hi
          /\ LET e == NextChunk(wbody[t + 1], CONFIG.chunk_size)
             IN  /\ files' = [files EXCEPT ![Part(t)].data = Write(@, e)]
                 /\ written' = [written EXCEPT ![t + 1] = @ + ChunkLen(e)]
                 /\ wchunk' = [wchunk EXCEPT ![t + 1] = ChunkLen(e)]
                 /\ wbody' = [wbody EXCEPT ![t + 1] = Rest(@, CONFIG.chunk_size)]
                 /\ wpc' = [wpc EXCEPT ![t + 1] = "lock"]
                 /\ UNCHANGED wres
       \/ /\ wbody[t + 1].lo > wbody[t + 1].hi
          /\ wpc' = [wpc EXCEPT ![t + 1] = "done"]
          /\ wres' = [wres EXCEPT ![t + 1] = Part(t)]
          /\ UNCHANGED <<files, written, wchunk, wbody>>
       \/ /\ wbody[t + 1].lo <= wbody[t + 1].hi
          /\ dc_fail(t)
          /\ UNCHANGED <<files, written, wchunk, wbody>>
    /\ UNCHANGED <<otherVars, frontVars, envVars, mainVars, poolVars, simpleVars, requests, dest_opened,
                   progress_data>>

\* with progress_lock: progress_data['downloaded'][thread_id] += len(chunk)
\* The statement under the lock is one step: progress_lock is taken only
\* around this statement, so its holders exclude each other and nothing else
\* waits for it.
dc_add(t) ==
    /\ wpc[t + 1] = "lock"
    /\ progress_data' = AddProgress(progress_data, t, wchunk[t + 1])
    /\ wpc' = [wpc EXCEPT ![t + 1] = "iter"]
    /\ UNCHANGED <<otherVars, frontVars, envVars, mainVars, poolVars, simpleVars, ioVars,
                   wbody, wchunk, wres, written>>

download_chunk(t) ==
    dc_request(t) \/ dc_open(t) \/ dc_iter(t) \/ dc_add(t)

(***************************************************************************)
(* threaded_download_advanced: the main thread.                            *)
(***************************************************************************)
RECURSIVE SumSeq(_)
SumSeq(q) == IF q = <<>> THEN 0 ELSE Head(q) + SumSeq(Tail(q))

\* all(f.done() for f in futures)
AnyDone == \E t \in Workers : wpc[t + 1] = "done"

AllDone == \A t \in Workers : wpc[t + 1] = "done"

\* [f.result() for f in futures if f.result()]
RECURSIVE Results(_)
Results(q) ==
    IF q = <<>> THEN <<>>
    ELSE IF Head(q) = None THEN Results(Tail(q))
         ELSE <<Head(q)>> \o Results(Tail(q))

\* if len(temp_files) == num_threads
AnyChunkArrived(tf, n) == Len(tf) > 0

AllChunksArrived(tf, n) == Len(tf) = n

\* for i in range(num_threads) of the cleanup branch
CleanupSkipsFirst(n) == 1..(n - 1)

CleanupRange(n) == 0..(n - 1)

\* num_threads = min(CONFIG['max_threads'], 16) ... progress_lock = Lock()
tda_plan ==
    /\ mpc = "t_plan"
    /\ LET n == Min(CONFIG.max_threads, THREAD_CAP)
       IN  /\ num_threads' = n
           /\ download_tasks' = Plan(file_info.file_size, n)
           /\ progress_data' = [k \in 1..n |-> 0]
           /\ wpc' = [k \in 1..n |-> "pending"]
           /\ wbody' = [k \in 1..n |-> EmptyBody]
           /\ wchunk' = [k \in 1..n |-> 0]
           /\ wres' = [k \in 1..n |-> None]
           /\ written' = [k \in 1..n |-> 0]
    /\ mpc' = "t_submit"
    /\ UNCHANGED <<otherVars, frontVars, envVars, success, ret, route, STATS, temp_files, loop_i,
                   total_downloaded, simpleVars, ioVars>>

\* futures = [executor.submit(download_chunk, start, end, tid) ...]
tda_submit ==
    /\ mpc = "t_submit"
    /\ wpc' = [k \in 1..num_threads |-> "request"]
    /\ mpc' = "t_loop"
    /\ UNCHANGED <<otherVars, frontVars, envVars, success, ret, route, STATS, poolVars, simpleVars, ioVars,
                   progress_data, wbody, wchunk, wres, written>>

\* while not all(f.done() ...): total_downloaded = sum(...); time.sleep(0.1)
tda_loop ==
    /\ mpc = "t_loop"
    /\ \/ /\ ~AllDone
          /\ total_downloaded' = SumSeq(progress_data)
          /\ total_downloaded' # total_downloaded
          /\ UNCHANGED mpc
       \/ /\ AllDone
          /\ mpc' = "t_collect"
          /\ UNCHANGED total_downloaded
    /\ UNCHANGED <<otherVars, frontVars, envVars, success, ret, route, STATS, num_threads, download_tasks,
                   temp_files, loop_i, workerVars, simpleVars, ioVars>>

\* temp_files = [f.result() for f in futures if f.result()]; the pool exits
tda_collect ==
    /\ mpc = "t_collect"
    /\ temp_files' = Results(wres)
    /\ mpc' = "t_check"
    /\ UNCHANGED <<otherVars, frontVars, envVars, success, ret, route, STATS, num_threads, download_tasks,
                   loop_i, total_downloaded, workerVars, simpleVars, ioVars>>

\* if len(temp_files) == num_threads: ... else: ...
tda_check ==
    /\ mpc = "t_check"
    /\ loop_i' = 0
    /\ mpc' = IF AllChunksArrived(temp_files, num_threads) THEN "t_open_dest" ELSE "t_cleanup"
    /\ UNCHANGED <<otherVars, frontVars, envVars, success, ret, route, STATS, num_threads, download_tasks,
                   temp_files, total_downloaded, workerVars, simpleVars, ioVars>>

\* with open(filepath, 'wb') as outfile   (an OSError leaves the function and
\* is caught by professional_download)
tda_open_dest ==
    /\ mpc = "t_open_dest"
    /\ \/ /\ files' = [files EXCEPT ![filepath] = File(<<>>)]
          /\ dest_opened' = TRUE
          /\ mpc' = "t_copy"
       \/ /\ mpc' = "pd_except"
          /\ UNCHANGED <<files, dest_opened>>
    /\ UNCHANGED <<otherVars, frontVars, envVars, success, ret, route, STATS, poolVars, workerVars,
                   simpleVars, requests>>

\* What shutil.copyfileobj has written of infile when an I/O error stops it:
\* nothing (the sink cannot be opened or read, or the first write fails) or a
\* part of it.
CopiedBeforeError(infile) ==
    {<<>>} \cup (IF FLen(infile) > 1
                 THEN {<<Ext(infile[1].src, infile[1].lo, infile[1].lo)>>}
                 ELSE {})

\* for i in range(num_threads): if os.path.exists(temp_file):
\* shutil.copyfileobj(infile, outfile); after the loop return True.
\* The third disjunct is an OSError of open(temp_file, 'rb') or of the copy:
\* it leaves both with blocks and the function, and is caught by
\* professional_download.
tda_copy ==
    /\ mpc = "t_copy"
    /\ \/ /\ loop_i < num_threads
          /\ files[Part(loop_i)].exists
          /\ files' = [files EXCEPT ![filepath].data =
                           copyfileobj(files[Part(loop_i)].data, @)]
          /\ mpc' = "t_remove"
          /\ UNCHANGED <<loop_i, success>>
       \/ /\ loop_i < num_threads
          /\ files[Part(loop_i)].exists
          /\ \E part \in CopiedBeforeError(files[Part(loop_i)].data) :
                files' = [files EXCEPT ![filepath].data = copyfileobj(part, @)]
          /\ mpc' = "pd_except"
          /\ UNCHANGED <<loop_i, success>>
       \/ /\ loop_i < num_threads
          /\ ~files[Part(loop_i)].exists
          /\ loop_i' = loop_i + 1
          /\ UNCHANGED <<files, mpc, success>>
       \/ /\ loop_i = num_threads
          /\ success' = "True"
          /\ mpc' = "pd_after"
          /\ UNCHANGED <<files, loop_i>>
    /\ UNCHANGED <<otherVars, frontVars, envVars, ret, route, STATS, num_threads, download_tasks, temp_files,
                   total_downloaded, workerVars, simpleVars, requests, dest_opened>>

tda_remove_keeps ==
    /\ mpc = "t_remove"
    /\ loop_i' = loop_i + 1
    /\ mpc' = "t_copy"
    /\ UNCHANGED <<otherVars, frontVars, envVars, success, ret, route, STATS, num_threads, download_tasks,
                   temp_files, total_downloaded, workerVars, simpleVars, ioVars>>

\* os.remove(temp_file)
tda_remove ==
    /\ mpc = "t_remove"
    /\ files' = [files EXCEPT ![Part(loop_i)] = NoFile]
    /\ loop_i' = loop_i + 1
    /\ mpc' = "t_copy"
    /\ UNCHANGED <<otherVars, frontVars, envVars, success, ret, route, STATS, num_threads, download_tasks,
                   temp_files, total_downloaded, workerVars, simpleVars, requests,
                   dest_opened>>

\* for i in range(num_threads): if os.path.exists(temp_file): os.remove(temp_file)
\* and after the loop return False
tda_cleanup ==
    /\ mpc = "t_cleanup"
    /\ \/ /\ loop_i < num_threads
          /\ files' = IF loop_i \in CleanupRange(num_threads) /\ files[Part(loop_i)].exists
                      THEN [files EXCEPT ![Part(loop_i)] = NoFile]
                      ELSE files
          /\ loop_i' = loop_i + 1
          /\ UNCHANGED <<mpc, success>>
       \/ /\ loop_i >= num_threads
          /\ success' = "False"
          /\ mpc' = "pd_after"
          /\ UNCHANGED <<files, loop_i>>
    /\ UNCHANGED <<otherVars, frontVars, envVars, ret, route, STATS, num_threads, download_tasks, temp_files,
                   total_downloaded, workerVars, simpleVars, requests, dest_opened>>

threaded_download_advanced ==
    \/ tda_plan \/ tda_submit \/ tda_loop \/ tda_collect \/ tda_check
    \/ tda_open_dest \/ tda_copy \/ tda_remove \/ tda_cleanup

(***************************************************************************)
(* simple_download_advanced.                                               *)
(***************************************************************************)
\* if resume_pos == file_info['file_size']
NeverComplete(pos, size) == FALSE

AlreadyComplete(pos, size) == pos = size

\* headers['Range'] = f'bytes={resume_pos}-' if resume_pos > 0
ResumeRange(pos) == IF pos > 0 THEN Range(pos, -1) ELSE NoRange

\* mode = 'ab' if resume_pos > 0 else 'wb'
OpenMode(pos) == IF pos > 0 THEN "ab" ELSE "wb"

\* resume_pos = 0; if os.path.exists(filepath) and CONFIG['resume_downloads']: ...
sda_check ==
    /\ mpc = "s_check"
    /\ LET resumes == files[filepath].exists /\ CONFIG.resume_downloads
           pos == IF resumes THEN FLen(files[filepath].data) ELSE 0
       IN  /\ resume_pos' = pos
           /\ IF resumes /\ AlreadyComplete(pos, file_info.file_size)
              THEN /\ success' = "True"
                   /\ mpc' = "pd_after"
              ELSE /\ mpc' = "s_request"
                   /\ UNCHANGED success
    /\ UNCHANGED <<otherVars, frontVars, envVars, ret, route, STATS, poolVars, workerVars, mode, sbody,
                   downloaded, ioVars>>

\* response = session.get(url, headers=headers, stream=True, ...);
\* response.raise_for_status(); downloaded = resume_pos
sda_request ==
    /\ mpc = "s_request"
    /\ LET r == ResumeRange(resume_pos)
           a == Answer(server, r)
       IN  /\ requests' = requests \cup {[by |-> -1, range |-> r]}
           /\ mode' = OpenMode(resume_pos)
           /\ \/ /\ ~raise_for_status(a.status)
                 /\ sbody' = a.body
                 /\ downloaded' = resume_pos
                 /\ mpc' = "s_open"
              \/ /\ mpc' = "pd_except"
                 /\ UNCHANGED <<sbody, downloaded>>
    /\ UNCHANGED <<otherVars, frontVars, envVars, success, ret, route, STATS, poolVars, workerVars,
                   resume_pos, files, dest_opened>>

\* with open(filepath, mode) as f
sda_open ==
    /\ mpc = "s_open"
    /\ files' = [files EXCEPT ![filepath] =
                    IF mode = "ab" /\ @.exists THEN @ ELSE File(<<>>)]
    /\ dest_opened' = TRUE
    /\ mpc' = "s_iter"
    /\ UNCHANGED <<otherVars, frontVars, envVars, success, ret, route, STATS, poolVars, workerVars,
                   simpleVars, requests>>

\* for chunk in response.iter_content(...): f.write(chunk);
\* downloaded += len(chunk); after the loop return True
sda_iter ==
    /\ mpc = "s_iter"
    /\ \/ /\ sbody.lo <= sbody.hi
          /\ LET e == NextChunk(sbody, CONFIG.chunk_size)
             IN  /\ files' = [files EXCEPT ![filepath].data = Write(@, e)]
                 /\ downloaded' = downloaded + ChunkLen(e)
                 /\ sbody' = Rest(sbody, CONFIG.chunk_size)
          /\ UNCHANGED <<mpc, success>>
       \/ /\ sbody.lo > sbody.hi
          /\ success' = "True"
          /\ mpc' = "pd_after"
          /\ UNCHANGED <<files, downloaded, sbody>>
       \/ /\ sbody.lo <= sbody.hi
          /\ mpc' = "pd_except"
          /\ UNCHANGED <<files, downloaded, sbody, success>>
    /\ UNCHANGED <<otherVars, frontVars, envVars, ret, route, STATS, poolVars, workerVars, resume_pos, mode,
                   requests, dest_opened>>

simple_download_advanced == sda_check \/ sda_request \/ sda_open \/ sda_iter

(***************************************************************************)
(* professional_download.                                                  *)
(***************************************************************************)
\* if file_info['file_size'] > 10 * 1024 * 1024 and file_info['supports_resume']
AlwaysThreaded(info) == info.supports_resume

ThreadedBySizeOnly(info) == info.file_size > SMALL_FILE_LIMIT

UseThreaded(info) == info.file_size > SMALL_FILE_LIMIT /\ info.supports_resume

\* if not is_valid
accepts_every_url(valid) == FALSE

url_rejected(valid) == valid # "True"

\* is_valid, validation_msg = validate_url(url); if not is_valid: return False
pd_validate ==
    /\ mpc = "validate"
    /\ is_valid' = validate_url(url, CONFIG)[1]
    /\ IF url_rejected(is_valid')
       THEN /\ ret' = "False"
            /\ mpc' = "done"
       ELSE /\ mpc' = "probe"
            /\ UNCHANGED ret
    /\ UNCHANGED <<otherVars, url, error, head_requests, head_status, envVars, success, route,
                   STATS, poolVars, workerVars, simpleVars, ioVars>>

\* What a server may answer to session.head(url): a 2xx answer with or
\* without a content-length (absent: 0) and an accept-ranges header, or an
\* error status with neither header.
HeadAnswers(srv) ==
    [status : {200}, content_length : {0, srv.size}, accept_ranges : BOOLEAN]
        \cup [status : {404}, content_length : {0}, accept_ranges : {FALSE}]

\* info = {'file_size': int(response.headers.get('content-length', 0)),
\*         'supports_resume': 'accept-ranges' in response.headers, ...}
get_file_info_advanced(response) ==
    [file_size |-> response.content_length, supports_resume |-> response.accept_ranges]

\* file_info, error = get_file_info_advanced(url); if error: return False
\* The second disjunct is an exception of session.head: (None, str(e)).
pd_probe ==
    /\ mpc = "probe"
    /\ head_requests' = head_requests + 1
    /\ \/ \E response \in HeadAnswers(server) :
             /\ head_status' = response.status
             /\ file_info' = get_file_info_advanced(response)
             /\ error' = "None"
             /\ mpc' = "disk"
             /\ UNCHANGED ret
       \/ /\ error' = "error"
          /\ ret' = "False"
          /\ mpc' = "done"
          /\ UNCHANGED <<head_status, file_info>>
    /\ UNCHANGED <<otherVars, url, is_valid, CONFIG, server, filepath, dest0, free, files0,
                   download_dir, success, route, STATS, poolVars, workerVars, simpleVars, ioVars>>

\* required_mb = (file_info['file_size'] / 1024 / 1024) + CONFIG['min_disk_space_mb'],
\* in bytes
required_bytes(info, config) == info.file_size + config.min_disk_space_mb * MiB

\* check_disk_space(path, required_mb)[0]: free_mb >= required_mb, in bytes.
\* shutil.disk_usage(path) raises for a path that does not exist, and the
\* bare except clause answers (True, 0).
check_disk_space(path_exists, free_bytes, required) ==
    IF path_exists THEN free_bytes >= required ELSE TRUE

\* if CONFIG['check_disk_space']: ... if not has_space: return False
pd_disk ==
    /\ mpc = "disk"
    /\ IF /\ CONFIG.check_disk_space
          /\ ~check_disk_space(download_dir, free, required_bytes(file_info, CONFIG))
       THEN /\ ret' = "False"
            /\ mpc' = "done"
       ELSE /\ mpc' = "rename"
            /\ UNCHANGED ret
    /\ UNCHANGED <<otherVars, frontVars, envVars, success, route, STATS, poolVars, workerVars,
                   simpleVars, ioVars>>

\* counter = 1; while os.path.exists(filepath): filepath = base_counter.ext;
\* counter += 1
RECURSIVE first_free(_, _)
first_free(fs, counter) ==
    IF fs[Renamed(counter)].exists THEN first_free(fs, counter + 1) ELSE Renamed(counter)

\* if CONFIG['auto_rename'] and os.path.exists(filepath): ...;
\* os.makedirs(CONFIG['download_dir'], exist_ok=True)
pd_rename ==
    /\ mpc = "rename"
    /\ filepath' = IF CONFIG.auto_rename /\ files[filepath].exists
                   THEN first_free(files, 1)
                   ELSE filepath
    /\ dest0' = files[filepath']
    /\ download_dir' = TRUE
    /\ mpc' = "confirm"
    /\ UNCHANGED <<otherVars, frontVars, CONFIG, file_info, server, free, files0, success, ret,
                   route, STATS, poolVars, workerVars, simpleVars, ioVars>>

\* confirm = input("Continue download? (Y/n): ").lower(); if confirm == 'n': return False
\* With standard input at its end input() raises EOFError; the statement is
\* outside the try block, so the exception leaves professional_download.
pd_confirm ==
    /\ mpc = "confirm"
    /\ \/ \E confirm \in {"n", "y"} :
             IF confirm = "n"
             THEN /\ ret' = "False"
                  /\ mpc' = "done"
             ELSE /\ mpc' = "dispatch"
                  /\ UNCHANGED ret
       \/ /\ ret' = "EOFError"
          /\ mpc' = "done"
    /\ UNCHANGED <<otherVars, frontVars, envVars, success, route, STATS, poolVars, workerVars,
                   simpleVars, ioVars>>

pd_dispatch ==
    /\ mpc = "dispatch"
    /\ route' = IF UseThreaded(file_info) THEN "threaded" ELSE "simple"
    /\ mpc' = IF UseThreaded(file_info) THEN "t_plan" ELSE "s_check"
    /\ UNCHANGED <<otherVars, frontVars, envVars, success, ret, STATS, poolVars, workerVars, simpleVars, ioVars>>

\* if success: STATS[...] += ...; return True   (otherwise the function ends)
pd_after ==
    /\ mpc = "pd_after"
    /\ IF success = "True"
       THEN /\ STATS' = [STATS EXCEPT !.total_downloads = @ + 1,
                                      !.total_bytes = @ + file_info.file_size]
            /\ ret' = "True"
       ELSE /\ ret' = "None"
            /\ UNCHANGED STATS
    /\ mpc' = "done"
    /\ UNCHANGED <<otherVars, frontVars, envVars, success, route, poolVars, workerVars, simpleVars, ioVars>>

pd_except_retries ==
    /\ mpc = "pd_except"
    /\ STATS' = [STATS EXCEPT !.failed_downloads = @ + 1]
    /\ mpc' = "dispatch"
    /\ UNCHANGED <<otherVars, frontVars, envVars, success, ret, route, poolVars, workerVars, simpleVars, ioVars>>

\* except Exception as e: STATS['failed_downloads'] += 1; return False
pd_except ==
    /\ mpc = "pd_except"
    /\ STATS' = [STATS EXCEPT !.failed_downloads = @ + 1]
    /\ ret' = "False"
    /\ mpc' = "done"
    /\ UNCHANGED <<otherVars, frontVars, envVars, success, route, poolVars, workerVars, simpleVars, ioVars>>

\* except KeyboardInterrupt: return False
pd_interrupt ==
    /\ mpc = "pd_interrupt"
    /\ ret' = "False"
    /\ mpc' = "done"
    /\ UNCHANGED <<otherVars, frontVars, envVars, success, route, STATS, poolVars, workerVars, simpleVars, ioVars>>

professional_download ==
    \/ pd_validate \/ pd_probe \/ pd_disk \/ pd_rename \/ pd_confirm
    \/ pd_dispatch \/ pd_after \/ pd_except \/ pd_interrupt

(***************************************************************************)
(* The user's interrupt: KeyboardInterrupt is raised in the main thread.   *)
(* Inside the pool's with block the exception first runs the executor's    *)
(* exit, which waits for the workers; a further interrupt ends that wait.  *)
(***************************************************************************)
InPool == mpc \in {"t_loop", "t_collect"}

TransferPhases ==
    {"t_plan", "t_submit", "t_loop", "t_collect", "t_check", "t_open_dest", "t_copy",
     "t_remove", "t_cleanup", "t_int_wait", "s_check", "s_request", "s_open", "s_iter"}

KeyboardInterrupt ==
    /\ mpc \in TransferPhases
    /\ mpc' = IF InPool THEN "t_int_wait" ELSE "pd_interrupt"
    /\ UNCHANGED <<otherVars, frontVars, envVars, success, ret, route, STATS, poolVars, workerVars,
                   simpleVars, ioVars>>

\* ThreadPoolExecutor.__exit__: shutdown(wait=True), then the exception goes on
pool_exit_wait ==
    /\ mpc = "t_int_wait"
    /\ AllDone
    /\ mpc' = "pd_interrupt"
    /\ UNCHANGED <<otherVars, frontVars, envVars, success, ret, route, STATS, poolVars, workerVars,
                   simpleVars, ioVars>>

Next ==
    \/ professional_download
    \/ threaded_download_advanced
    \/ simple_download_advanced
    \/ \E t \in Workers : download_chunk(t)
    \/ KeyboardInterrupt
    \/ pool_exit_wait

Spec == Init /\ [][Next]_vars

(***************************************************************************)
(* Properties of the session.                                              *)
(***************************************************************************)
Failed(t) == wpc[t + 1] = "done" /\ wres[t + 1] = None

Complete(t) == wpc[t + 1] = "done" /\ wres[t + 1] = Part(t)

\* threaded_download_advanced has returned (an interrupt makes it raise instead)
ThreadedReturned == route = "threaded" /\ success \in {"True", "False"}

\* C2: if a segment worker ended Failed, threaded_download_advanced returns
\* failure, the destination was never opened for writing (it is as it was
\* before the session) and no sink <dest>.part0 .. <dest>.part(N-1) is left.
C2_FailedSegmentVoidsSession ==
    (ThreadedReturned /\ \E t \in Workers : Failed(t)) =>
        /\ success = "False"
        /\ ~dest_opened
        /\ files[filepath] = dest0
        /\ \A t \in Workers : ~files[Part(t)].exists

\* C2 witness: the call returned after one worker failed in mid-stream, with
\* bytes already in its sink, while another worker completed.
C2_Witness ==
    /\ ThreadedReturned
    /\ mpc = "done"
    /\ \E t, u \in Workers : Failed(t) /\ written[t + 1] > 0 /\ Complete(u)

\* What one unranged stream of the resource delivers from this server.
SingleStream == Write(<<>>, NextChunk(Answer(server, NoRange).body, server.size + 1))

\* C3: a successful multi-segment download leaves a destination that is
\* byte-identical to what a single-stream download of the resource produces,
\* whatever the order in which the workers completed.
C3_ReassemblyEqualsSingleStream ==
    (ThreadedReturned /\ success = "True") => files[filepath].data = SingleStream

Reassembling == mpc \in {"t_open_dest", "t_copy", "t_remove"}

\* C4: reassembly runs (and, interrupted or not, the destination has been
\* opened by the multi-segment path) only when every worker is terminal and
\* every segment Complete, and each sink it is about to copy exists.
C4_ReassemblyOnlyWhenAllComplete ==
    /\ Reassembling =>
          /\ \A t \in Workers : Complete(t)
          /\ \A t \in Workers :
                (t > loop_i \/ (t = loop_i /\ mpc # "t_remove")) => files[Part(t)].exists
    /\ (route = "threaded" /\ dest_opened) => \A t \in Workers : Complete(t)

\* C4 witness: reassembly of a two-segment session has consumed sink 0 and is
\* about to copy sink 1.
C4_Witness ==
    /\ mpc = "t_copy"
    /\ num_threads = 2
    /\ loop_i = 1
    /\ files[filepath].data # <<>>

\* C5: once all workers are terminal the aggregated counter is the sum of the
\* chunk lengths the workers wrote.
C5_CounterIsExactSum ==
    (route = "threaded" /\ num_threads > 0 /\ AllDone) =>
        /\ SumSeq(progress_data) = SumSeq(written)
        /\ \A t \in Workers : progress_data[t + 1] = written[t + 1]

\* C5 witness: two workers are terminal, they wrote different totals, and one
\* of them added more than one chunk.
C5_Witness ==
    /\ num_threads = 2
    /\ AllDone
    /\ written[1] # written[2]
    /\ written[1] > 0 /\ written[2] > CONFIG.chunk_size
    /\ SumSeq(progress_data) = written[1] + written[2]

\* C6: a successful resume from an existing partial file of length L,
\* 0 < L < total_size, requested exactly 'bytes=L-', kept the first L bytes
\* and left a file of length total_size.
C6_ResumeCompletesFile ==
    (route = "simple" /\ success = "True" /\ CONFIG.resume_downloads /\ dest0.exists
       /\ 0 < FLen(dest0.data) /\ FLen(dest0.data) < file_info.file_size) =>
        /\ requests = {[by |-> -1, range |-> Range(FLen(dest0.data), -1)]}
        /\ Head(files[filepath].data) = Head(dest0.data)
        /\ FLen(files[filepath].data) = file_info.file_size

PreComplete ==
    /\ CONFIG.resume_downloads
    /\ dest0.exists
    /\ FLen(dest0.data) = file_info.file_size

\* C7: on the single-stream path with resume enabled and a destination whose
\* length equals the expected size, no request is ever issued, the file is
\* never opened or changed, and the transfer returns success.
C7_AlreadyCompleteShortCircuit ==
    (route = "simple" /\ PreComplete) =>
        /\ requests = {}
        /\ ~dest_opened
        /\ files[filepath] = dest0
        /\ mpc \notin {"s_request", "s_open", "s_iter", "pd_except"}
        /\ mpc = "pd_after" => success = "True"
        /\ (mpc = "done" /\ success # "unset") => ret = "True"

\* C7 witness: a download of a known size returned True on that branch.
C7_Witness ==
    /\ route = "simple"
    /\ PreComplete
    /\ file_info.file_size > 0
    /\ mpc = "done"
    /\ ret = "True"

\* C8 as stated: with a probed size of 0 there is no body transfer and the
\* download completes at once with a zero-byte output file.
C8_ZeroSizeNoTransfer ==
    file_info.file_size = 0 =>
        /\ requests = {}
        /\ success = "True" => (files[filepath].exists /\ FLen(files[filepath].data) = 0)

\* C8 amended: with a probed size of 0 no segment is planned and the
\* single-stream path is used.  Without a destination to resume it issues one
\* unranged body transfer and on success the output holds the body the server
\* delivered; with an empty destination to resume it completes at once with
\* no transfer; with a non-empty one of length L it requests 'bytes=L-' and
\* appends.
C8_ZeroSizeSingleStream ==
    (file_info.file_size = 0 /\ route # "none") =>
        /\ route = "simple"
        /\ num_threads = 0 /\ download_tasks = <<>>
        /\ \A q \in requests : q.by = -1
        /\ (~(CONFIG.resume_downloads /\ dest0.exists)) =>
              /\ requests \subseteq {[by |-> -1, range |-> NoRange]}
              /\ mpc \in {"s_open", "s_iter"} => requests # {}
              /\ success = "True" =>
                    /\ requests # {}
                    /\ files[filepath] = File(SingleStream)
        /\ (CONFIG.resume_downloads /\ dest0.exists /\ FLen(dest0.data) = 0) =>
              /\ requests = {}
              /\ files[filepath] = dest0
              /\ mpc = "pd_after" => success = "True"
        /\ (CONFIG.resume_downloads /\ dest0.exists /\ FLen(dest0.data) > 0) =>
              /\ requests \subseteq {[by |-> -1, range |-> Range(FLen(dest0.data), -1)]}
              /\ files[filepath].exists
              /\ Head(files[filepath].data) = Head(dest0.data)

\* C8 witness: a fresh download of a resource of unknown size returned success
\* with a non-empty output file.
C8_Witness ==
    /\ file_info.file_size = 0
    /\ dest0 = NoFile
    /\ mpc = "done"
    /\ ret = "True"
    /\ requests = {[by |-> -1, range |-> NoRange]}
    /\ FLen(files[filepath].data) > 0

\* C11: in every run of professional_download a probe or transfer request is
\* issued, or a file created or changed, only after validate_url accepted the
\* URL: is_valid holds what validate_url returned, and the probe, the first
\* I/O, is reached only with a URL it accepts.  A rejected URL ends the call
\* at once with the result False, with no request issued and the disk as it
\* was, and nothing more is done for it.
C11_NoIOBeforeValidation ==
    /\ (head_requests > 0 \/ requests # {} \/ files # files0 \/ dest_opened) =>
          is_valid = "True"
    /\ (mpc = "validate") <=> (is_valid = "unset")
    /\ mpc = "probe" => (is_valid = "True" /\ validate_url(url, CONFIG)[1] = "True")
    /\ is_valid = "False" =>
          /\ validate_url(url, CONFIG)[1] = "False"
          /\ mpc = "done"
          /\ ret = "False"
          /\ head_requests = 0
          /\ requests = {}
          /\ files = files0
          /\ ~dest_opened
          /\ ~ENABLED Next

\* C11 witness: a call with a URL of a blocked extension has returned False
\* while the destination name exists on disk.
C11_Witness ==
    /\ is_valid = "False"
    /\ validate_url(url, CONFIG) = <<"False", "Blocked file type">>
    /\ mpc = "done"
    /\ ret = "False"
    /\ files0[Dest].exists

\* C13: a segment is Complete only when its answer was a partial-content
\* answer and the body received has the length of its range, so the sink of a
\* Complete segment holds exactly end - start + 1 bytes.
C13_CompleteSinkHasRangeSize ==
    \A t \in Workers :
        (Complete(t) /\ files[Part(t)].exists) =>
            /\ Answer(server, Range(download_tasks[t + 1][1], download_tasks[t + 1][2])).status = 206
            /\ FLen(files[Part(t)].data) =
                  download_tasks[t + 1][2] - download_tasks[t + 1][1] + 1

\* What worker u owns: its position, response, result, counters and sink.
WorkerState(u) ==
    <<wpc[u + 1], wbody[u + 1], wchunk[u + 1], wres[u + 1], written[u + 1],
      progress_data[u + 1], files[Part(u)]>>

Running(u) == wpc[u + 1] \in {"request", "open", "iter", "lock"}

\* C14: the step in which a worker fails changes nothing of a sibling; a
\* running worker's state is changed only by its own steps, whatever the
\* siblings and the main thread do; and a running worker can always take its
\* next step, also after a sibling failed.
C14_SiblingIndependence ==
    /\ [][\A t \in Workers :
             (wpc[t + 1] # "done" /\ wpc'[t + 1] = "done" /\ wres'[t + 1] = None) =>
                 \A u \in Workers \ {t} : WorkerState(u)' = WorkerState(u)]_vars
    /\ [][\A u \in Workers :
             (Running(u) /\ WorkerState(u)' # WorkerState(u)) => download_chunk(u)]_vars
    /\ [](\A u \in Workers : Running(u) => ENABLED download_chunk(u))

\* C14 witness: one worker has failed before writing anything and a sibling
\* is still streaming, with bytes in its sink and more to come.
C14_Witness ==
    /\ mpc = "t_loop"
    /\ \E t, u \in Workers :
          /\ Failed(t) /\ written[t + 1] = 0
          /\ wpc[u + 1] = "iter" /\ written[u + 1] > 0
          /\ wbody[u + 1].lo <= wbody[u + 1].hi

\* The main thread has observed the interrupt of a multi-segment transfer.
InterruptObserved == route = "threaded" /\ mpc \in {"t_int_wait", "pd_interrupt"}

\* C15: once the interrupt of a multi-segment transfer has been observed no
\* worker writes a further chunk to its sink, and the call goes on to return
\* whether or not the remaining workers are terminal.
C15_InterruptStopsWorkers ==
    /\ [][InterruptObserved => (written' = written /\ files' = files)]_vars
    /\ [](mpc = "t_int_wait" => ENABLED pool_exit_wait)

\* C17: professional_download takes the multi-segment path exactly when the
\* probed size is above 10 MiB and the probe reported range support; on the
\* other path the planner never runs, no worker exists (no sink is written
\* or removed) and at most one
\* request, a single-stream one, is issued; on the multi-segment path every
\* request is a worker's.
C17_RouteByProbe ==
    route # "none" =>
        /\ route \in {"threaded", "simple"}
        /\ (route = "threaded") <=>
              (file_info.file_size > SMALL_FILE_LIMIT /\ file_info.supports_resume)
        /\ route = "simple" =>
              /\ num_threads = 0 /\ download_tasks = <<>> /\ wpc = <<>>
              /\ \A t \in Tids : files[Part(t)] = files0[Part(t)]
              /\ \A q \in requests : q.by = -1
              /\ Cardinality(requests) <= 1
              /\ mpc \in {"s_open", "s_iter"} => Cardinality(requests) = 1
        /\ route = "threaded" =>
              /\ \A q \in requests : q.by \in Workers
              /\ mpc \notin {"s_check", "s_request", "s_open", "s_iter"}

\* C17 witness: a resource above the threshold whose probe reported no range
\* support was downloaded with one unranged single-stream request.
C17_Witness ==
    /\ file_info.file_size > SMALL_FILE_LIMIT
    /\ ~file_info.supports_resume
    /\ route = "simple"
    /\ requests = {[by |-> -1, range |-> NoRange]}
    /\ mpc = "done"
    /\ ret = "True"
    /\ CONFIG.max_threads > 1

\* The probe failed: session.head raised, or the answer's status is not 2xx.
ProbeFailed == head_requests > 0 /\ (error = "error" \/ head_status \notin 200..299)

\* C18: the probe is attempted once; if it fails with a network error or with
\* a non-2xx status it returns an error, professional_download returns False,
\* no transfer request is issued and no file is created or changed.
C18_ProbeFailureStopsDownload ==
    /\ head_requests <= 1
    /\ ProbeFailed =>
          /\ error = "error"
          /\ mpc = "done"
          /\ ret = "False"
          /\ requests = {}
          /\ files = files0
          /\ ~dest_opened

\* The free-space check of this call is enabled and found too little room:
\* the probe has answered and the free space of the download location is
\* less than the probed size plus the configured minimum.
TooLittleSpace ==
    /\ CONFIG.check_disk_space
    /\ error = "None"
    /\ free < required_bytes(file_info, CONFIG)

\* C21: when the free-space check is enabled and the free space of the
\* download location is less than the resource size plus the configured
\* minimum, professional_download gets no further than the check: it returns
\* False with no transfer request issued and no destination or sink created.
C21_NoSpaceNoTransfer ==
    (TooLittleSpace /\ mpc # "disk") =>
        /\ mpc = "done" /\ ret = "False"
        /\ requests = {}
        /\ files = files0
        /\ ~dest_opened

\* Worker t's ranged fetch: its one session.get of the segment's range.
Fetch(t) == [by |-> t, range |-> Range(download_tasks[t + 1][1], download_tasks[t + 1][2])]

\* C22: within a session each segment's ranged fetch is attempted at most
\* once.  A worker leaves the request step by issuing its segment's fetch and
\* either goes on to its sink or ends Failed; it never comes back to the
\* request step; Complete and Failed are absorbing; and only a worker at its
\* request step adds a fetch to the requests issued.
C22_FetchedAtMostOnce ==
    [][\A t \in Workers :
          /\ (wpc[t + 1] = "request" /\ wpc'[t + 1] # "request") =>
                /\ requests' = requests \cup {Fetch(t)}
                /\ Fetch(t) \notin requests
                /\ \/ wpc'[t + 1] = "open"
                   \/ wpc'[t + 1] = "done" /\ wres'[t + 1] = None
          /\ wpc[t + 1] \in {"open", "iter", "lock", "done"} =>
                /\ wpc'[t + 1] \notin {"pending", "request"}
                /\ Fetch(t) \in requests
                /\ \A q \in requests' \ requests : q.by # t
          /\ wpc[t + 1] = "done" =>
                wpc'[t + 1] = "done" /\ wres'[t + 1] = wres[t + 1]]_vars

\* C22 witness: the session has returned; one worker's request was refused
\* (Failed with nothing written) after a sibling had completed, and each of
\* the two issued its fetch.
C22_Witness ==
    /\ mpc = "done"
    /\ num_threads = 2
    /\ Failed(0) /\ written[1] = 0
    /\ Complete(1)
    /\ requests = {Fetch(0), Fetch(1)}

\* An I/O error has stopped the copy of a sink into the destination: the
\* multi-segment path opened the destination and raised.
CopyFailed ==
    /\ route = "threaded"
    /\ dest_opened
    /\ mpc = "pd_except" \/ (mpc = "done" /\ STATS.failed_downloads > 0)

\* C23: if a copy I/O error occurs while reassembling segment k (loop_i = k),
\* reassembly aborts, professional_download returns False and nothing is
\* retried; on disk are the destination, written in part, and the intact
\* sinks of segments k..N-1, while the sinks of segments 0..k-1 are deleted.
C23_CopyErrorAborts ==
    /\ [](CopyFailed =>
            /\ loop_i < num_threads
            /\ files[filepath].exists
            /\ FLen(files[filepath].data) < SumSeq(written)
            /\ \A t \in Workers :
                  /\ files[Part(t)].exists <=> t >= loop_i
                  /\ t >= loop_i => FLen(files[Part(t)].data) = written[t + 1]
            /\ success = "unset"
            /\ mpc = "done" => ret = "False")
    /\ [][(mpc = "t_copy" /\ mpc' = "pd_except") =>
            /\ FLen(files'[filepath].data) >= FLen(files[filepath].data)
            /\ \A t \in Workers : files'[Part(t)] = files[Part(t)]]_vars
    /\ [][CopyFailed =>
            /\ files' = files /\ requests' = requests /\ loop_i' = loop_i
            /\ mpc' \in {mpc, "done"}
            /\ mpc' = "done" => ret' = "False"]_vars

\* C23 witness: the call has returned after the copy of the second of two
\* sinks failed part-way: sink 0 is consumed and deleted, the destination
\* holds it and one byte more, and sink 1 is still there.
C23_Witness ==
    /\ CopyFailed
    /\ mpc = "done"
    /\ num_threads = 2
    /\ loop_i = 1
    /\ FLen(files[filepath].data) = written[1] + 1
    /\ files[Part(1)].exists

\* The bytes a Complete worker t left in its sink: the body of the answer to
\* its fetch.
SinkOf(t) == Write(<<>>, LET b == Answer(server, Fetch(t).range).body
                         IN  Ext("res", b.lo, b.hi))

\* The destination after the sinks 0..k-1 were copied into it, in this order.
RECURSIVE Reassembled(_)
Reassembled(k) == IF k = 0 THEN <<>> ELSE copyfileobj(SinkOf(k - 1), Reassembled(k - 1))

\* C24: during reassembly the sinks are consumed in ascending order and a
\* sink is deleted only after all its bytes were copied: when segment loop_i
\* is next, exactly the sinks below it are gone, the destination holds the
\* whole of each of them in index order, and the others are intact; after a
\* successful reassembly no sink of the session exists.
C24_SinkDeletedAfterCopy ==
    /\ mpc \in {"t_copy", "t_remove"} =>
          /\ \A t \in Workers :
                /\ files[Part(t)].exists <=> t >= loop_i
                /\ t >= loop_i => files[Part(t)].data = SinkOf(t)
          /\ files[filepath].data =
                Reassembled(IF mpc = "t_remove" THEN loop_i + 1 ELSE loop_i)
    /\ (ThreadedReturned /\ success = "True") =>
          /\ \A t \in Workers : ~files[Part(t)].exists
          /\ files[filepath].data = Reassembled(num_threads)

\* C24 witness: a two-segment session was reassembled and has returned True;
\* the destination holds as many bytes as the two sinks held.
C24_Witness ==
    /\ ThreadedReturned /\ success = "True"
    /\ mpc = "done" /\ ret = "True"
    /\ num_threads = 2
    /\ written[1] > 0 /\ written[2] > 0
    /\ FLen(files[filepath].data) = written[1] + written[2]

\* C29: with auto_rename enabled, the destination path handed to the transfer
\* did not exist when it was chosen, the single-stream path takes no resume
\* position from it, and every file that was in the directory before the call
\* is as it was: none is overwritten, appended to or removed.
C29_AutoRenameProtects ==
    (CONFIG.auto_rename /\ route # "none") =>
        /\ dest0 = NoFile
        /\ resume_pos = 0
        /\ \A q \in Paths : files0[q].exists => files[q] = files0[q]

NoStats == [total_downloads |-> 0, total_bytes |-> 0, failed_downloads |-> 0]

\* C30: when a call of professional_download has ended, the statistics of the
\* session (which were zero before it) show exactly one count if the call
\* reached the transfer stage: one download and the probed size in bytes if
\* the transfer succeeded, one failed download if it did not (an exception,
\* a failed segment or an interrupt); a call rejected earlier changed nothing.
C30_OneCountPerTransfer ==
    mpc = "done" =>
        IF route = "none"
        THEN STATS = NoStats
        ELSE IF ret = "True"
             THEN STATS = [total_downloads |-> 1, total_bytes |-> file_info.file_size,
                           failed_downloads |-> 0]
             ELSE STATS = [total_downloads |-> 0, total_bytes |-> 0, failed_downloads |-> 1]

\* C27: whenever professional_download reports success for a resource whose
\* probed size S is greater than 0, the destination file has length exactly
\* S, on either path and whatever the server does with Range and with the
\* end of a stream.
C27_SuccessHasProbedSize ==
    (mpc = "done" /\ ret = "True" /\ file_info.file_size > 0) =>
        /\ files[filepath].exists
        /\ FLen(files[filepath].data) = file_info.file_size

(***************************************************************************)
(* Progress of a multi-segment transfer.  The operating system schedules   *)
(* every thread: a worker that can take a step eventually takes one (its   *)
(* stream delivers the next chunk, ends or fails), and the main thread     *)
(* wakes from time.sleep(0.1) and goes on.  The user's interrupt is under  *)
(* no such obligation.                                                     *)
(***************************************************************************)
InitLive ==
    /\ Init
    /\ url = <<"h", "t", "t", "p", "s", ":", "/", "/", "e", "x", "a", "m", "p", "l", "e", ".", "c", "o", "m", "/", "f", "i", "l", "e", ".", "z", "i", "p">>
    /\ CONFIG.max_threads = MaxThreads
    /\ CONFIG.resume_downloads /\ CONFIG.auto_rename /\ CONFIG.check_disk_space
    /\ free > 0
    /\ server.size = SMALL_FILE_LIMIT + 1
    /\ ~server.short
    /\ ~files0[Dest].exists

Fairness ==
    /\ WF_vars(threaded_download_advanced)
    /\ \A t \in Tids : WF_vars(t \in Workers /\ download_chunk(t))

SpecLive == InitLive /\ [][Next]_vars /\ Fairness

Terminal(t) == Complete(t) \/ Failed(t)

AfterLoop == mpc \in {"t_collect", "t_check", "t_open_dest", "t_copy", "t_remove", "t_cleanup"}

\* The call left threaded_download_advanced by an interrupt instead of a result.
Interrupted ==
    \/ mpc \in {"t_int_wait", "pd_interrupt"}
    \/ mpc = "done" /\ success = "unset"

\* The call left threaded_download_advanced by an I/O error of reassembly
\* (open, copyfileobj or os.remove raised after the loop).
ReassemblyRaised == route = "threaded" /\ mpc = "pd_except"

\* C20: the progress loop takes a sample only while some worker is not
\* terminal; the code after the loop, and the result, are reached only when
\* every worker is terminal; and, the workers being scheduled until they
\* complete or fail, a transfer that is in the loop eventually leaves it and,
\* unless the user interrupts it or reassembly meets an I/O error, returns a
\* result.
C20_LoopTerminates ==
    /\ [][(mpc = "t_loop" /\ mpc' = "t_loop" /\ total_downloaded' # total_downloaded) =>
             \E t \in Workers : ~Terminal(t)]_vars
    /\ []((AfterLoop \/ ThreadedReturned) => \A t \in Workers : Terminal(t))
    /\ (mpc = "t_loop") ~> (mpc # "t_loop")
    /\ (mpc = "t_loop") ~> (ThreadedReturned \/ Interrupted \/ ReassemblyRaised)

\* C20 witness: the loop of a transfer with several workers has ended after
\* it took a sample of bytes in flight, and the results are being collected.
C20_Witness ==
    /\ mpc = "t_collect"
    /\ num_threads > 1
    /\ total_downloaded > 0
    /\ \A t \in Workers : Terminal(t)

PlanSizes == (1..MaxPlanSize) \cup {SMALL_FILE_LIMIT + 1, 2 * SMALL_FILE_LIMIT + 5}

InitPlan ==
    /\ p_size \in PlanSizes
    /\ p_n \in 1..PLAN_MAX_WORKERS
    /\ p_tasks = <<>>
    /\ p_done = FALSE
    /\ IdleRate
    /\ IdleUrl
    /\ IdleCfg
    /\ IdleSession
    /\ IdleSampler
    /\ IdleBatch
    /\ IdleName

PlanSegments ==
    /\ ~p_done
    /\ p_tasks' = Plan(p_size, p_n)
    /\ p_done' = TRUE
    /\ UNCHANGED <<p_size, p_n, rateVars, urlVars, cfgVars, nameVars, batchVars, sampVars, sessVars>>

NextPlan == PlanSegments

SpecPlan == InitPlan /\ [][NextPlan]_vars

RECURSIVE SumLengths(_)
SumLengths(tasks) ==
    IF tasks = <<>> THEN 0
    ELSE (Head(tasks)[2] - Head(tasks)[1] + 1) + SumLengths(Tail(tasks))

Tiles(tasks, size, n) ==
    /\ Len(tasks) = n
    /\ \A k \in 1..n : tasks[k][3] = k - 1
    /\ tasks[1][1] = 0
    /\ tasks[n][2] = size - 1
    /\ \A k \in 1..n : tasks[k][2] - tasks[k][1] + 1 >= 0
    /\ \A k \in 1..(n - 1) : tasks[k + 1][1] = tasks[k][2] + 1
    /\ \A j, k \in 1..n : j < k => tasks[j][1] <= tasks[k][1] /\ tasks[j][2] < tasks[k][1]
    /\ SumLengths(tasks) = size

\* C1: for every total_size > 0 and every worker count n in 1..32 the planned
\* segments are sorted by index, contiguous, non-overlapping, end at
\* total_size-1 and their lengths sum to total_size.
C1_PlanTiles == p_done => Tiles(p_tasks, p_size, p_n)

\* C1 witness: a plan of several segments whose last segment absorbed a
\* remainder and is longer than the first.
C1_Witness ==
    /\ p_done
    /\ p_n > 1
    /\ p_size % p_n # 0
    /\ p_size > p_n
    /\ p_tasks[p_n][2] - p_tasks[p_n][1] > p_tasks[1][2] - p_tasks[1][1]

(***************************************************************************)
(* CONFIG['max_threads']: the operations that write it, and the planner    *)
(* and pool of threaded_download_advanced run on the value they leave.     *)
(***************************************************************************)

\* What the user can type at the "Max Threads" prompts (threads.isdigit()).
ThreadInputs == 0..(PLAN_MAX_WORKERS + 1)

\* os.cpu_count()
CpuCounts == {1, 2, 4, 8, 16}

\* The integers a config file or an imported JSON file can hold for the key.
StoredThreads == (-1)..(PLAN_MAX_WORKERS + 1)

InitCfg ==
    /\ cfg_max_threads = DEFAULT_max_threads
    /\ cfg_steps = 0
    /\ cfg_plan = NoPlan
    /\ IdlePlan
    /\ IdleRate
    /\ IdleUrl
    /\ IdleSession
    /\ IdleSampler
    /\ IdleBatch
    /\ IdleName

CfgStep ==
    /\ cfg_plan.state = "unset"
    /\ cfg_steps < MaxCfgSteps
    /\ cfg_steps' = cfg_steps + 1
    /\ UNCHANGED <<cfg_plan, planVars, rateVars, urlVars, nameVars, batchVars, sampVars, sessVars>>

\* CONFIG['max_threads'] = max(1, min(32, int(threads)))
configure_download_behavior ==
    /\ CfgStep
    /\ \E threads \in ThreadInputs :
          cfg_max_threads' = Max(1, Min(PLAN_MAX_WORKERS, threads))

\* CONFIG['max_threads'] = min(16, max(4, cpu_count * 2))
configure_system_resources ==
    /\ CfgStep
    /\ \E cpu_count \in CpuCounts :
          cfg_max_threads' = Min(16, Max(4, cpu_count * 2))

\* CONFIG[key] = int(value)
load_config ==
    /\ CfgStep
    /\ \E value \in StoredThreads : cfg_max_threads' = value

\* for key, value in imported_config.items(): CONFIG[key] = value
import_export_config ==
    /\ CfgStep
    /\ \E value \in StoredThreads : cfg_max_threads' = value

\* CONFIG = DEFAULT_CONFIG.copy()
reset_to_defaults ==
    /\ CfgStep
    /\ cfg_max_threads' = DEFAULT_max_threads

\* num_threads = min(CONFIG['max_threads'], 16); chunk_size = file_size //
\* num_threads; for i in range(num_threads): ...;
\* ThreadPoolExecutor(max_workers=num_threads)
plan_and_pool(max_threads, file_size) ==
    LET n == Min(max_threads, THREAD_CAP)
    IN  IF n = 0
        THEN [state |-> "ZeroDivisionError", num_threads |-> n, segments |-> 0,
              max_workers |-> 0]
        ELSE IF n < 0
        THEN [state |-> "ValueError", num_threads |-> n, segments |-> 0, max_workers |-> 0]
        ELSE [state |-> "pool", num_threads |-> n, segments |-> Len(Plan(file_size, n)),
              max_workers |-> n]

cfg_download ==
    /\ cfg_plan.state = "unset"
    /\ cfg_plan' = plan_and_pool(cfg_max_threads, SMALL_FILE_LIMIT + 1)
    /\ UNCHANGED <<cfg_max_threads, cfg_steps, planVars, rateVars, urlVars, nameVars, batchVars, sampVars, sessVars>>

NextCfg ==
    \/ configure_download_behavior
    \/ configure_system_resources
    \/ load_config
    \/ import_export_config
    \/ reset_to_defaults
    \/ cfg_download

SpecCfg == InitCfg /\ [][NextCfg]_vars

\* C16: whatever settings edits, config-file loads and imports preceded it, a
\* multi-segment download plans at least 1 and at most min(max_threads, 16)
\* segments and its pool has one worker per planned segment.
C16_SegmentCountInRange ==
    cfg_plan.state # "unset" =>
        /\ cfg_plan.state = "pool"
        /\ 1 <= cfg_plan.segments
        /\ cfg_plan.segments <= Min(cfg_max_threads, THREAD_CAP)
        /\ cfg_plan.max_workers = cfg_plan.segments

(***************************************************************************)
(* The rate limiter of simple_download_advanced's chunk loop.  Time is in  *)
(* ticks and r_rate is the cap, CONFIG['download_rate_limit_kbps'] * 1024, *)
(* in bytes per tick; chunk lengths are multiples of the cap, so that      *)
(* len(chunk) / cap is a whole number of ticks.                            *)
(***************************************************************************)
\* expected_time = len(chunk) / (CONFIG['download_rate_limit_kbps'] * 1024)
expected_time(len, rate) == len \div rate

\* if elapsed < expected_time: time.sleep(expected_time - elapsed)
sleep_time(elapsed, expected) == IF elapsed < expected THEN expected - elapsed ELSE 0

InitRate ==
    /\ r_rate \in 1..MaxRate
    /\ r_now = 0
    /\ r_start = 0
    /\ r_last_time = 0
    /\ r_bytes = 0
    /\ r_chunks = 0
    /\ r_burst = 0
    /\ r_deficit = 0
    /\ r_slept = 0
    /\ IdlePlan
    /\ IdleUrl
    /\ IdleCfg
    /\ IdleSession
    /\ IdleSampler
    /\ IdleBatch
    /\ IdleName

\* One turn of the loop: the next chunk arrives delay ticks after the last
\* turn ended and is written; current_time = time.time(); the limiter sleeps;
\* last_time = current_time.  r_deficit is what the chunk's length and the
\* time since the last chunk ask the limiter to sleep, r_slept what the turn
\* slept.
rate_limited_chunk ==
    /\ r_chunks < MaxRateChunks
    /\ \E delay \in 0..MaxDelay, k \in 1..MaxChunkTicks :
          LET len == k * r_rate
              current_time == r_now + delay
              elapsed == current_time - r_last_time
          IN  /\ r_bytes' = r_bytes + len
              /\ r_chunks' = r_chunks + 1
              /\ r_burst' = IF len > r_burst THEN len ELSE r_burst
              /\ r_now' = current_time + sleep_time(elapsed, expected_time(len, r_rate))
              /\ r_last_time' = current_time
              /\ r_deficit' = sleep_time(elapsed, expected_time(len, r_rate))
              /\ r_slept' = r_now' - current_time
    /\ UNCHANGED <<r_rate, r_start, planVars, urlVars, cfgVars, nameVars, batchVars, sampVars, sessVars>>

NextRate == rate_limited_chunk

SpecRate == InitRate /\ [][NextRate]_vars

\* C9: with a cap of C bytes per tick, after any number of chunks the bytes
\* written exceed C times the elapsed time by at most one chunk (the largest
\* chunk of the transfer).
C9_ThroughputWithinCap ==
    r_bytes <= r_rate * (r_now - r_start) + r_burst

(***************************************************************************)
(* The chunk loop of download_chunk under a configured cap                 *)
(* (CONFIG['download_rate_limit_kbps'] > 0), in the same ticks.            *)
(***************************************************************************)
InitWorkerRate == InitRate

\* for chunk in response.iter_content(...): f.write(chunk);
\* with progress_lock: progress_data['downloaded'][thread_id] += len(chunk)
\* The turn reads no clock and does not sleep.
worker_chunk ==
    /\ r_chunks < MaxRateChunks
    /\ \E delay \in 0..MaxDelay, k \in 1..MaxChunkTicks :
          LET len == k * r_rate
              arrival == r_now + delay
              elapsed == arrival - r_last_time
          IN  /\ r_bytes' = r_bytes + len
              /\ r_chunks' = r_chunks + 1
              /\ r_burst' = IF len > r_burst THEN len ELSE r_burst
              /\ r_now' = arrival
              /\ r_last_time' = arrival
              /\ r_deficit' = sleep_time(elapsed, expected_time(len, r_rate))
              /\ r_slept' = 0
    /\ UNCHANGED <<r_rate, r_start, planVars, urlVars, cfgVars, nameVars, batchVars, sampVars, sessVars>>

NextWorkerRate == worker_chunk

SpecWorkerRate == InitWorkerRate /\ [][NextWorkerRate]_vars

\* C19: with a cap configured, after each chunk a segment worker sleeps the
\* deficit between the time the chunk should take at the cap and the time
\* since the last chunk, as the single-stream loop does.
C19_WorkerSleepsDeficit == r_chunks > 0 => r_slept = r_deficit

(***************************************************************************)
(* Batch mode: the loop of main (--batch) and of batch_download_manager    *)
(* over the URLs of the list.  A call of professional_download is taken by *)
(* its outcome: the value it returns or the exception that leaves it.      *)
(***************************************************************************)
\* return True; return False; the end of the function (None)
Returns == {"True", "False", "None"}

\* input() at the confirmation prompt, outside the function's try block
Raises == {"EOFError"}

\* The URLs of the list are named by their position.
UrlLists == {[k \in 1..n |-> k] : n \in 1..MaxUrls}

InitBatch ==
    /\ IdlePlan
    /\ IdleRate
    /\ IdleUrl
    /\ IdleCfg
    /\ IdleName
    /\ IdleSession
    /\ IdleSampler
    /\ entry \in {"main", "batch_download_manager"}
    /\ urls \in UrlLists
    /\ batch_i = 1
    /\ successful = 0
    /\ failed = 0
    /\ calls = <<>>
    /\ outcomes = <<>>
    /\ batch_pc = "loop"
    /\ exit_code = "unset"

\* if professional_download(url, show_progress=False)
truthy(outcome) == outcome = "True"

\* for i, url in enumerate(urls, 1): if professional_download(url, ...):
\* successful += 1 (batch_download_manager: else: failed += 1).  An exception
\* of the call ends the loop: main catches it and returns 1, out of
\* batch_download_manager it goes on to the caller.
batch_call ==
    /\ batch_pc = "loop"
    /\ batch_i <= Len(urls)
    /\ calls' = Append(calls, urls[batch_i])
    /\ \E outcome \in Returns \cup Raises :
          /\ outcomes' = Append(outcomes, outcome)
          /\ IF outcome \in Raises
             THEN /\ batch_pc' = IF entry = "main" THEN "done" ELSE "raised"
                  /\ exit_code' = IF entry = "main" THEN "1" ELSE exit_code
                  /\ UNCHANGED <<batch_i, successful, failed>>
             ELSE /\ successful' = IF truthy(outcome) THEN successful + 1 ELSE successful
                  /\ failed' = IF ~truthy(outcome) /\ entry = "batch_download_manager"
                               THEN failed + 1 ELSE failed
                  /\ batch_i' = batch_i + 1
                  /\ UNCHANGED <<batch_pc, exit_code>>
    /\ UNCHANGED <<entry, urls, planVars, rateVars, urlVars, cfgVars, nameVars, sampVars, sessVars>>

\* main: return 0 if successful == len(urls) else 1;
\* batch_download_manager: the summary, and the function ends
batch_end ==
    /\ batch_pc = "loop"
    /\ batch_i > Len(urls)
    /\ batch_pc' = "done"
    /\ exit_code' = IF entry = "main"
                    THEN (IF successful = Len(urls) THEN "0" ELSE "1")
                    ELSE exit_code
    /\ UNCHANGED <<entry, urls, batch_i, successful, failed, calls, outcomes,
                   planVars, rateVars, urlVars, cfgVars, nameVars, sampVars, sessVars>>

NextBatch == batch_call \/ batch_end

SpecBatch == InitBatch /\ [][NextBatch]_vars

\* C26: in batch mode every URL of the list is attempted exactly once, in
\* order, whatever the outcome of earlier URLs: when the batch has ended the
\* calls made are the URLs of the list.  The successes and the failures
\* counted add up to the number of URLs, and main's exit code is 0 exactly
\* when every URL succeeded.
C26_BatchAttemptsEveryUrl ==
    /\ \A k \in 1..Len(calls) : calls[k] = urls[k]
    /\ batch_pc \in {"done", "raised"} =>
          /\ calls = urls
          /\ entry = "batch_download_manager" => successful + failed = Len(urls)
          /\ entry = "main" =>
                (exit_code = "0" <=> \A k \in 1..Len(urls) : outcomes[k] = "True")

(***************************************************************************)
(* The progress sampler of threaded_download_advanced against its workers. *)
(* sum(progress_data['downloaded']) reads the list element by element, and *)
(* nothing orders these reads against the workers' updates; each worker    *)
(* writes a chunk to its sink and then adds its length under               *)
(* progress_lock.  Worker t is thread_id t, the lists are indexed t + 1,   *)
(* and progress_lock is the thread_id of its holder or -1.                 *)
(***************************************************************************)
SampThreads == 0..(MaxSampThreads - 1)

\* The length of a chunk, in units of half of CONFIG['chunk_size']: the last
\* chunk of a stream is a short one.
ChunkBytes(left) == IF left = 1 THEN 1 ELSE 2

InitSampler ==
    /\ IdlePlan
    /\ IdleRate
    /\ IdleUrl
    /\ IdleCfg
    /\ IdleName
    /\ IdleBatch
    /\ IdleSession
    /\ sp_downloaded = [k \in 1..MaxSampThreads |-> 0]
    /\ sp_written = [k \in 1..MaxSampThreads |-> 0]
    /\ sp_wpc = [k \in 1..MaxSampThreads |-> "iter"]
    /\ sp_chunk = [k \in 1..MaxSampThreads |-> 0]
    /\ sp_left = [k \in 1..MaxSampThreads |-> MaxSampChunks]
    /\ progress_lock = -1
    /\ sp_pc = "test"
    /\ sp_k = 0
    /\ sp_acc = 0
    /\ sp_total = 0

sp_write_unwritten(t) ==
    /\ sp_wpc[t + 1] = "iter"
    /\ sp_left[t + 1] > 0
    /\ sp_chunk' = [sp_chunk EXCEPT ![t + 1] = ChunkBytes(sp_left[t + 1])]
    /\ sp_left' = [sp_left EXCEPT ![t + 1] = @ - 1]
    /\ sp_wpc' = [sp_wpc EXCEPT ![t + 1] = "acquire"]
    /\ UNCHANGED <<sp_written, sp_downloaded, progress_lock, sp_pc, sp_k, sp_acc, sp_total,
                   planVars, rateVars, urlVars, cfgVars, nameVars, batchVars, sessVars>>

\* for chunk in response.iter_content(...): if chunk: f.write(chunk)
sp_write(t) ==
    /\ sp_wpc[t + 1] = "iter"
    /\ sp_left[t + 1] > 0
    /\ LET len == ChunkBytes(sp_left[t + 1])
       IN  /\ sp_written' = [sp_written EXCEPT ![t + 1] = @ + len]
           /\ sp_chunk' = [sp_chunk EXCEPT ![t + 1] = len]
    /\ sp_left' = [sp_left EXCEPT ![t + 1] = @ - 1]
    /\ sp_wpc' = [sp_wpc EXCEPT ![t + 1] = "acquire"]
    /\ UNCHANGED <<sp_downloaded, progress_lock, sp_pc, sp_k, sp_acc, sp_total,
                   planVars, rateVars, urlVars, cfgVars, nameVars, batchVars, sessVars>>

\* the stream ends (return temp_file) or raises (return None)
sp_end(t) ==
    /\ sp_wpc[t + 1] = "iter"
    /\ sp_wpc' = [sp_wpc EXCEPT ![t + 1] = "done"]
    /\ UNCHANGED <<sp_written, sp_downloaded, sp_chunk, sp_left, progress_lock, sp_pc, sp_k, sp_acc,
                   sp_total, planVars, rateVars, urlVars, cfgVars, nameVars, batchVars, sessVars>>

\* with progress_lock:   (waits while another thread holds the lock)
sp_acquire(t) ==
    /\ sp_wpc[t + 1] = "acquire"
    /\ progress_lock = -1
    /\ progress_lock' = t
    /\ sp_wpc' = [sp_wpc EXCEPT ![t + 1] = "add"]
    /\ UNCHANGED <<sp_written, sp_downloaded, sp_chunk, sp_left, sp_pc, sp_k, sp_acc, sp_total,
                   planVars, rateVars, urlVars, cfgVars, nameVars, batchVars, sessVars>>

\* progress_data['downloaded'][thread_id] += len(chunk), and the lock is released
sp_add(t) ==
    /\ sp_wpc[t + 1] = "add"
    /\ sp_downloaded' = AddProgress(sp_downloaded, t, sp_chunk[t + 1])
    /\ progress_lock' = -1
    /\ sp_wpc' = [sp_wpc EXCEPT ![t + 1] = "iter"]
    /\ UNCHANGED <<sp_written, sp_chunk, sp_left, sp_pc, sp_k, sp_acc, sp_total,
                   planVars, rateVars, urlVars, cfgVars, nameVars, batchVars, sessVars>>

sp_worker(t) == sp_write(t) \/ sp_end(t) \/ sp_acquire(t) \/ sp_add(t)

\* while not all(f.done() for f in futures): ... time.sleep(0.1)
sp_test ==
    /\ sp_pc = "test"
    /\ IF \A t \in SampThreads : sp_wpc[t + 1] = "done"
       THEN sp_pc' = "after"
       ELSE sp_pc' = "sum"
    /\ sp_k' = 0
    /\ sp_acc' = 0
    /\ UNCHANGED <<sp_written, sp_downloaded, sp_wpc, sp_chunk, sp_left, progress_lock, sp_total,
                   planVars, rateVars, urlVars, cfgVars, nameVars, batchVars, sessVars>>

\* total_downloaded = sum(progress_data['downloaded']): one element is read
\* and added; after the last one the sum is assigned
sp_sum ==
    /\ sp_pc = "sum"
    /\ LET acc == sp_acc + sp_downloaded[sp_k + 1]
       IN  IF sp_k + 1 < MaxSampThreads
           THEN /\ sp_acc' = acc
                /\ sp_k' = sp_k + 1
                /\ UNCHANGED <<sp_pc, sp_total>>
           ELSE /\ sp_total' = acc
                /\ sp_pc' = "test"
                /\ UNCHANGED <<sp_acc, sp_k>>
    /\ UNCHANGED <<sp_written, sp_downloaded, sp_wpc, sp_chunk, sp_left, progress_lock,
                   planVars, rateVars, urlVars, cfgVars, nameVars, batchVars, sessVars>>

sp_sampler == sp_test \/ sp_sum

NextSampler ==
    \/ \E t \in SampThreads : sp_worker(t)
    \/ sp_sampler

SpecSampler == InitSampler /\ [][NextSampler]_vars

\* C28: the sampler takes no lock and yet, under every interleaving with the
\* workers, successive samples of the aggregated count do not decrease, a
\* sample (and the part of it summed so far) is at most the number of bytes
\* written to the sinks, and the sampler never blocks a worker: its steps
\* leave the lock and the workers as they are, and a worker that has not
\* ended can take its next step unless another worker holds the lock it
\* waits for.
C28_SamplerMonotoneAndFree ==
    /\ [][sp_total' >= sp_total]_vars
    /\ [](/\ sp_total <= SumSeq(sp_written)
          /\ sp_acc <= SumSeq(sp_written)
          /\ \A t \in SampThreads : sp_downloaded[t + 1] <= sp_written[t + 1])
    /\ [][sp_sampler =>
            /\ progress_lock' = progress_lock
            /\ <<sp_wpc, sp_downloaded, sp_written>>' = <<sp_wpc, sp_downloaded, sp_written>>]_vars
    /\ [](\A t \in SampThreads :
             sp_wpc[t + 1] # "done" =>
                 \/ ENABLED sp_worker(t)
                 \/ sp_wpc[t + 1] = "acquire" /\ progress_lock \in SampThreads \ {t})

\* C28 witness: a sample has just been assigned; a worker added to its
\* counter after the sampler had read it, so the sample is less than the sum
\* of the counters, and a chunk is written but not yet counted.
C28_Witness ==
    /\ sp_pc = "test"
    /\ sp_total > 0
    /\ sp_total < SumSeq(sp_downloaded)
    /\ SumSeq(sp_downloaded) < SumSeq(sp_written)

(***************************************************************************)
(* The inputs of extract_filename: the URL, the response headers of the    *)
(* probe and the clock.                                                    *)
(***************************************************************************)
NameUrls ==
    {<<"h", "t", "t", "p", "s", ":", "/", "/", "e", "x", "a", "m", "p", "l", "e", ".", "c", "o", "m", "/", "d", "/", "u", ".", "b", "i", "n">>,
     <<"h", "t", "t", "p", "s", ":", "/", "/", "e", "x", "a", "m", "p", "l", "e", ".", "c", "o", "m", "/", "d", "/", "u", "%", "2", "0", "v", ".", "b", "i", "n">>,
     <<"h", "t", "t", "p", "s", ":", "/", "/", "e", "x", "a", "m", "p", "l", "e", ".", "c", "o", "m", "/", "d", "/">>,
     <<"h", "t", "t", "p", "s", ":", "/", "/", "e", "x", "a", "m", "p", "l", "e", ".", "c", "o", "m">>,
     <<"h", "t", "t", "p", "s", ":", "/", "/", "e", "x", "a", "m", "p", "l", "e", ".", "c", "o", "m", "/", "d", "/", "u", ".", "b", "i", "n", "?", "x", "=", "1">>,
     <<"h", "t", "t", "p", "s", ":", "/", "/", "e", "x", "a", "m", "p", "l", "e", ".", "c", "o", "m", "/", "d", "/", "u", ".", "b", "i", "n", ";", "p", "=", "1">>}

Param(name, value, quoted) == [name |-> name, value |-> value, quoted |-> quoted]

\* filename parameters: a plain name, and one with a percent-encoded space
FilenameParams ==
    {Param(<<"f", "i", "l", "e", "n", "a", "m", "e">>, v, q) : v \in {<<"a", ".", "z", "i", "p">>,
                                      <<"a", "%", "2", "0", "b", ".", "z", "i", "p">>},
                      q \in BOOLEAN}

SizeParam == Param(<<"s", "i", "z", "e">>, <<"3">>, FALSE)

\* The parameter lists a server sends: none, the filename alone, and the
\* filename before or after a further parameter.
ParamLists ==
    {<<>>, <<SizeParam>>}
        \cup {<<f>> : f \in FilenameParams}
        \cup {<<f, SizeParam>> : f \in FilenameParams}
        \cup {<<SizeParam, f>> : f \in FilenameParams}

DispositionTypes == {<<"a", "t", "t", "a", "c", "h", "m", "e", "n", "t">>, <<"i", "n", "l", "i", "n", "e">>}

NameHeaders ==
    {[has_content_disposition |-> FALSE, content_disposition |-> NoHeader]}
        \cup [has_content_disposition : {TRUE},
              content_disposition : [type : DispositionTypes, params : ParamLists]]

Timestamps == {<<"2", "0", "2", "6", "1", "1", "0", "1", "_", "1", "2", "0", "0", "0", "0">>}

InitName ==
    /\ IdlePlan
    /\ IdleRate
    /\ IdleUrl
    /\ IdleCfg
    /\ IdleSession
    /\ IdleSampler
    /\ IdleBatch
    /\ n_url \in NameUrls
    /\ n_headers \in NameHeaders
    /\ n_now \in Timestamps
    /\ n_filename = <<"unset">>

\* info['filename'] = extract_filename(url, response.headers)
extract ==
    /\ n_filename = <<"unset">>
    /\ n_filename' = extract_filename(n_url, n_headers, n_now)
    /\ UNCHANGED <<n_url, n_headers, n_now, planVars, rateVars, urlVars, cfgVars, batchVars, sampVars, sessVars>>

NextName == extract

SpecName == InitName /\ [][NextName]_vars

\* The filename hint of a header: the value of its first filename parameter.
HasHint(headers) ==
    /\ headers.has_content_disposition
    /\ \E k \in 1..Len(headers.content_disposition.params) :
          headers.content_disposition.params[k].name = <<"f", "i", "l", "e", "n", "a", "m", "e">>

Hint(headers) ==
    LET ps == headers.content_disposition.params
        k == CHOOSE j \in 1..Len(ps) :
                 /\ ps[j].name = <<"f", "i", "l", "e", "n", "a", "m", "e">>
                 /\ \A i \in 1..(j - 1) : ps[i].name # <<"f", "i", "l", "e", "n", "a", "m", "e">>
    IN  ps[k].value

\* The last path segment of the URL.
LastSegment(url_) == basename(urlparse(url_).path)

\* C25: extract_filename returns the URL-decoded filename hint of the
\* content-disposition header when there is one; otherwise the URL-decoded
\* last path segment of the URL when that is not empty; otherwise the name
\* generated from the timestamp.
C25_FilenamePrecedence ==
    n_filename # <<"unset">> =>
        n_filename =
            IF HasHint(n_headers) THEN unquote(Hint(n_headers))
            ELSE IF LastSegment(n_url) # <<>> THEN unquote(LastSegment(n_url))
            ELSE <<"d", "o", "w", "n", "l", "o", "a", "d", "_">> \o n_now

(***************************************************************************)
(* The inputs of validate_url.                                             *)
(***************************************************************************)
UrlSchemes == {<<"h", "t", "t", "p">>, <<"h", "t", "t", "p", "s">>, <<"H", "T", "T", "P", "S">>, <<"f", "t", "p">>, <<"s", "f", "t", "p">>, <<"f", "i", "l", "e">>, <<>>}

UrlSeparators == {<<":", "/", "/">>, <<":", "/">>}

UrlAuthorities ==
    {<<>>,
     <<"e", "x", "a", "m", "p", "l", "e", ".", "c", "o", "m">>,
     <<"i", "n", "t", "e", "r", "n", "a", "l">>,
     <<"l", "o", "c", "a", "l", "h", "o", "s", "t">>,
     <<"L", "o", "c", "a", "l", "H", "o", "s", "t">>,
     <<"l", "o", "c", "a", "l", "h", "o", "s", "t", ":", "8", "0", "8", "0">>,
     <<"1", "2", "7", ".", "0", ".", "0", ".", "1">>,
     <<"0", ".", "0", ".", "0", ".", "0">>,
     <<":", "8", "0", "8", "0">>,
     <<"u", "s", "e", "r", "@">>}

UrlPaths ==
    {<<>>,
     <<"/">>,
     <<"/", "f", "i", "l", "e", ".", "z", "i", "p">>,
     <<"/", "f", "i", "l", "e", ".", "e", "x", "e">>,
     <<"/", "F", "I", "L", "E", ".", "E", "X", "E">>,
     <<"/", "f", "i", "l", "e", ".", "e", "x", "e", "?", "v", "=", "1">>,
     <<"/", "f", "i", "l", "e", ".", "z", "i", "p", "?", "f", "=", "a", ".", "e", "x", "e">>,
     <<"/", "f", "i", "l", "e", ".", "e", "x", "e", "/">>,
     <<"/", "f", "i", "l", "e", ".", "b", "a", "t", "#", "t", "o", "p">>,
     <<"/", "f", "i", "l", "e", "e", "x", "e">>}

Urls ==
    {sc \o sep \o au \o pa :
        sc \in UrlSchemes, sep \in UrlSeparators, au \in UrlAuthorities, pa \in UrlPaths}

\* The policies a user can set in configure_security.
UrlConfigs ==
    {[allowed_protocols |-> DEFAULT_allowed_protocols,
      blocked_extensions |-> DEFAULT_blocked_extensions],
     [allowed_protocols |-> <<<<"h", "t", "t", "p">>, <<"h", "t", "t", "p", "s">>>>,
      blocked_extensions |-> <<<<".", "E", "X", "E">>>>]}

InitUrl ==
    /\ v_url \in Urls
    /\ v_config \in UrlConfigs
    /\ v_result = <<"unset", "">>
    /\ IdlePlan
    /\ IdleRate
    /\ IdleCfg
    /\ IdleSession
    /\ IdleSampler
    /\ IdleBatch
    /\ IdleName

validate ==
    /\ v_result[1] = "unset"
    /\ v_result' = validate_url(v_url, v_config)
    /\ UNCHANGED <<v_url, v_config, planVars, rateVars, cfgVars, nameVars, batchVars, sampVars, sessVars>>

NextUrl == validate

SpecUrl == InitUrl /\ [][NextUrl]_vars

\* C10: validate_url rejects, with a reason, every URL whose scheme is not
\* allowed, every URL with an empty host and every URL whose path ends with a
\* blocked extension, and accepts a URL that violates no policy.
C10_ValidatorEnforcesPolicies ==
    v_result[1] # "unset" =>
        LET parsed == urlparse(v_url)
            bad_scheme == ~in_list(parsed.scheme, v_config.allowed_protocols)
            no_host == hostname(parsed.netloc) = <<>>
            bad_ext == UrlBlockedExtension(v_url, v_config)
        IN  /\ (bad_scheme \/ no_host \/ bad_ext) => (v_result[1] = "False" /\ v_result[2] # "")
            /\ (~bad_scheme /\ ~no_host /\ ~bad_ext /\ ~UrlBlockedHost(v_url)) =>
                  v_result[1] = "True"

\* C12: validate_url rejects, with the blocked-host reason, every URL of an
\* allowed scheme whose host is localhost, 127.0.0.1 or 0.0.0.0, with or
\* without a port in the authority.
C12_BlockedHostsRejected ==
    (/\ v_result[1] # "unset"
     /\ in_list(urlparse(v_url).scheme, v_config.allowed_protocols)
     /\ UrlBlockedHost(v_url)) =>
        v_result = <<"False", "Suspicious domain detected">>

=============================================================================
